---- MODULE Spec2Model ----
(***************************************************************************)
(* Model of the retrieval-and-analysis subsystem of the financial          *)
(* dashboard (src/src/fin_dashboard/llm.py, datasources.py, src/app.py).   *)
(*                                                                         *)
(* Six specifications share the module:                                    *)
(*   Spec        one call of get_enhanced_ai_analysis, step by step        *)
(*   SpecRag     create_simple_rag_store and query_simple_rag on a corpus  *)
(*   SpecNorm    get_multi_year_financial_data, calculate_historical_ratios*)
(*   SpecPredict get_predictive_insights on a ratio timeline               *)
(*   SpecDocs    prepare_financial_documents on a snapshot                 *)
(*   SpecIndex   the cached vectorizer and store across sessions           *)
(*                                                                         *)
(* Similarities are cosine similarities in hundredths (7 stands for 0.07). *)
(* A text is abstracted to what the code inspects of it: its length, the   *)
(* presence of the HTML / placeholder markers, and who produced it.        *)
(* Ratios are exact fractions; a generated sentence is abstracted to its   *)
(* kind, the period it names, the word chosen for it and its figures.      *)
(***************************************************************************)
EXTENDS Integers, Sequences, FiniteSets, TLC

VARIABLES
    \* ---- get_enhanced_ai_analysis -------------------------------------
    pc,                   \* position inside get_enhanced_ai_analysis
    force_standard,       \* context_data["force_standard"]
    has_historical_data,  \* bool(multi_year_data.get('financial_data'))
    documents,            \* corpus prepare_financial_documents yields
    similarities,         \* cosine similarity of the query to each document
    model_cached,         \* st.cache_resource entry of init_gemini_model
    rag_built,            \* create_simple_rag_store was called
    rag_queried,          \* query_simple_rag was called
    build_error,          \* error value returned by create_simple_rag_store
    rag_results,          \* value returned by query_simple_rag
    model_calls,          \* generate_content calls made, in order
    responses,            \* what the model service answered, in order
    exc_seen,             \* places where an exception was raised
    propagated,           \* an exception left get_enhanced_ai_analysis
    result,               \* the returned AnalysisResult
    \* ---- query_simple_rag (SpecRag) ------------------------------------
    q_pc, q_documents, q_similarities, q_top_k, q_store, q_result,
    \* ---- get_multi_year_financial_data (SpecNorm) ---------------------
    n_pc, finnhub, yahoo, attempt, financial_timeline, ratios_timeline, n_error,
    \* ---- get_predictive_insights (SpecPredict) -------------------------
    p_pc,                 \* position inside get_predictive_insights
    p_ratios,             \* multi_year_data['ratios_timeline']
    p_insights,           \* the local list insights
    p_result,             \* the returned list
    \* ---- prepare_financial_documents (SpecDocs) ------------------------
    d_pc,                 \* position inside prepare_financial_documents
    d_financial,          \* multi_year_data['financial_data']
    d_ratios,             \* multi_year_data['ratios_timeline']
    d_metrics,            \* company_data['metric']
    d_raised,             \* an exception left prepare_financial_documents
    d_documents,          \* the returned documents
    d_metadata,           \* the returned metadata
    \* ---- the cached retrieval index across sessions (SpecIndex) --------
    vectorizer,           \* corpus the one cached TfidfVectorizer is fitted on
    store_cache,          \* st.cache_data entries of create_simple_rag_store
    s_pc,                 \* position of each session's script run
    s_ticker,             \* ticker each session analyses
    s_index,              \* vectorizer each session got from its build
    s_used,               \* vocabulary each session's query ranked with
    \* ---- format_*_for_prompt (SpecPrompt) -----------------------------
    f_pc,                 \* position inside the standard prompt's assembly
    f_ratios,             \* context_data['ratios'], in insertion order
    f_filings,            \* context_data['sec_filings']
    f_ratio_block,        \* lines returned by format_ratios_for_prompt
    f_filing_block,       \* lines returned by format_sec_filings_for_prompt
    \* ---- fetch_with_retry (SpecFetch) ---------------------------------
    r_pc,                 \* position inside fetch_with_retry
    r_retries,            \* the retries argument
    r_responses,          \* what the server answers to each request
    r_attempt,            \* the loop variable attempt
    r_requests,           \* requests.get calls made
    r_last_error,         \* the local last_error
    r_result,             \* the returned dictionary
    \* ---- the dashboard script and st.session_state (SpecApp) ----------
    u_ticker,             \* the sidebar's ticker selection
    u_finnhub_data,       \* st.session_state.finnhub_data
    u_ticker_symbol,      \* st.session_state.ticker_symbol
    u_analysis_data,      \* st.session_state.analysis_data
    u_show_ai_analysis,   \* st.session_state['show_ai_analysis']
    u_screen              \* what the last script run displayed

avars == <<pc, force_standard, has_historical_data, documents, similarities,
           model_cached, rag_built, rag_queried, build_error, rag_results,
           model_calls, responses, exc_seen, propagated, result>>
qvars == <<q_pc, q_documents, q_similarities, q_top_k, q_store, q_result>>
nvars == <<n_pc, finnhub, yahoo, attempt, financial_timeline, ratios_timeline,
           n_error>>
pvars == <<p_pc, p_ratios, p_insights, p_result>>
dvars == <<d_pc, d_financial, d_ratios, d_metrics, d_raised, d_documents,
           d_metadata>>
ivars == <<vectorizer, store_cache, s_pc, s_ticker, s_index, s_used>>
fvars == <<f_pc, f_ratios, f_filings, f_ratio_block, f_filing_block>>
rvars == <<r_pc, r_retries, r_responses, r_attempt, r_requests, r_last_error,
           r_result>>
uvars == <<u_ticker, u_finnhub_data, u_ticker_symbol, u_analysis_data,
           u_show_ai_analysis, u_screen>>
vars == <<avars, qvars, nvars, pvars, dvars, ivars, fvars, rvars, uvars>>

\* ------------------------------------------------------------------------
\* Bounds
\* ------------------------------------------------------------------------
MaxDocs == 4
MaxQueryDocs == 4
MaxTopK == 3
MaxReports == 3
MaxGrowth == 4
MaxMargins == 3
MaxTimeline == 5
MaxSessions == 2
MaxTickers == 2
MaxRatios == 3
MaxFilings == 4
MaxRetries == 3

\* ------------------------------------------------------------------------
\* Program constants
\* ------------------------------------------------------------------------
TopK == 3
DocThreshold == 5
MetaThreshold == 10
MinContentLen == 50
MaxPeriods == 6
YahooAttempts == 3
FilingsShown == 3

NoValue == "none"

\* ------------------------------------------------------------------------
\* Generic helpers
\* ------------------------------------------------------------------------
Range(s) == {s[i] : i \in 1..Len(s)}

Reverse(s) == [i \in 1..Len(s) |-> s[Len(s) + 1 - i]]

Prefix(s, k) == IF Len(s) <= k THEN s ELSE SubSeq(s, 1, k)

\* s[-k:]
Suffix(s, k) == IF k = 0 \/ Len(s) <= k THEN s ELSE SubSeq(s, Len(s) - k + 1, Len(s))

Perms(n) == {p \in [1..n -> 1..n] : \A i, j \in 1..n : i # j => p[i] # p[j]}

\* ------------------------------------------------------------------------
\* Texts
\* ------------------------------------------------------------------------
\* What the model service can answer: a text, or a failure of the call.
GoodText        == [kind |-> "model", len |-> 60, html |-> FALSE, placeholder |-> FALSE]
HtmlText        == [kind |-> "model", len |-> 60, html |-> TRUE,  placeholder |-> FALSE]
PlaceholderText == [kind |-> "model", len |-> 60, html |-> FALSE, placeholder |-> TRUE]
ShortText       == [kind |-> "model", len |-> 10, html |-> FALSE, placeholder |-> FALSE]
EmptyText       == [kind |-> "model", len |-> 0,  html |-> FALSE, placeholder |-> FALSE]

ModelTexts == {GoodText, HtmlText, PlaceholderText, ShortText, EmptyText}
\* generate_content (or the .text accessor) raised
Raise == [kind |-> "raise", len |-> 0, html |-> FALSE, placeholder |-> FALSE]
ModelOutcomes == ModelTexts \cup {Raise}

\* "Unable to generate analysis. Please try again."  (46 characters)
UnableMsg == [kind |-> "unable", len |-> 46, html |-> FALSE, placeholder |-> FALSE]
\* f"Error generating analysis: {str(e)}. Please check your API key and try again."
ErrorMsg == [kind |-> "error", len |-> 72, html |-> FALSE, placeholder |-> FALSE]
\* f"Enhanced analysis error: {str(e)}. Please try again."
EnhancedErrorMsg == [kind |-> "enhanced_error", len |-> 60, html |-> FALSE, placeholder |-> FALSE]

\* `response and response.text`
Truthy(text) == text.len > 0

\* The display layer's test of an analysis text: corrupted or too short.
Malformed(text) ==
    \/ text.len = 0
    \/ text.html
    \/ text.placeholder
    \/ text.len < MinContentLen

\* ------------------------------------------------------------------------
\* query_simple_rag
\* ------------------------------------------------------------------------
SimVals == {0, 5, 7, 10, 30}

EmptyRag == [documents |-> <<>>, metadatas |-> <<>>, scores |-> <<>>,
             error |-> NoValue]

\* The dictionary of the except branch, which carries an 'error' entry.
FailedRag == [documents |-> <<>>, metadatas |-> <<>>, scores |-> <<>>,
              error |-> "exception"]

\* similarities.argsort(): a permutation of the indices that lists the
\* similarities in ascending order; the default sort is not stable, so equal
\* similarities may come out in any order.
Argsort(sims) ==
    LET n == Len(sims) IN
    {p \in Perms(n) : \A i, j \in 1..n : i < j => sims[p[i]] <= sims[p[j]]}

\* similarities.argsort()[-top_k:][::-1]
TopIndices(order, top_k) == Reverse(Suffix(order, top_k))

\* The entries of top_indices whose similarity is above the threshold.
Above(top_indices, sims, threshold) ==
    SelectSeq(top_indices, LAMBDA i : sims[i] > threshold)

\* Variant: the scores are filtered with the threshold of the documents.
QuerySimpleRag_OneThreshold(docs, sims, order, top_k) ==
    IF docs = <<>> THEN EmptyRag
    ELSE LET top_indices == TopIndices(order, top_k)
             doc_idx == Above(top_indices, sims, DocThreshold)
             meta_idx == Above(top_indices, sims, MetaThreshold)
         IN [documents |-> [k \in 1..Len(doc_idx) |-> docs[doc_idx[k]]],
             metadatas |-> [k \in 1..Len(meta_idx) |-> docs[meta_idx[k]]],
             scores    |-> [k \in 1..Len(doc_idx) |-> sims[doc_idx[k]]],
             error     |-> NoValue]

\* The returned dictionary; document i is i, its metadata is i.
QuerySimpleRag(docs, sims, order, top_k) ==
    IF docs = <<>> THEN EmptyRag
    ELSE LET top_indices == TopIndices(order, top_k)
             doc_idx == Above(top_indices, sims, DocThreshold)
             meta_idx == Above(top_indices, sims, MetaThreshold)
         IN [documents |-> [k \in 1..Len(doc_idx) |-> docs[doc_idx[k]]],
             metadatas |-> [k \in 1..Len(meta_idx) |-> docs[meta_idx[k]]],
             scores    |-> [k \in 1..Len(meta_idx) |-> sims[meta_idx[k]]],
             error     |-> NoValue]

\* Variant: the empty-corpus test comes after the transforms, inside the try.
QueryOutcome_LateEmptyCheck(docs, sims, order, top_k, fails) ==
    IF fails THEN FailedRag ELSE QuerySimpleRag(docs, sims, order, top_k)

\* One call of query_simple_rag: fails tells whether a transform raised; an
\* empty document list returns before anything can raise.
QueryOutcome(docs, sims, order, top_k, fails) ==
    IF docs # <<>> /\ fails THEN FailedRag
    ELSE QuerySimpleRag(docs, sims, order, top_k)

Corpus(n) == [i \in 1..n |-> i]

\* ------------------------------------------------------------------------
\* get_simple_ai_analysis
\* ------------------------------------------------------------------------
\* One run of get_simple_ai_analysis: init_ok tells whether init_gemini_model
\* succeeded, outcome what generate_content did.  The try/except around the
\* whole body turns every exception into the returned error string.
GetSimpleAiAnalysis(init_ok, outcome) ==
    IF ~init_ok
    THEN [raised |-> FALSE, text |-> ErrorMsg, called |-> FALSE,
          exc |-> {"standard_init"}]
    ELSE IF outcome = Raise
    THEN [raised |-> FALSE, text |-> ErrorMsg, called |-> TRUE,
          exc |-> {"standard_invoke"}]
    ELSE IF Truthy(outcome)
    THEN [raised |-> FALSE, text |-> outcome, called |-> TRUE, exc |-> {}]
    ELSE [raised |-> FALSE, text |-> UnableMsg, called |-> TRUE, exc |-> {}]

\* init_gemini_model is memoised by st.cache_resource: once it has returned
\* a model it returns that model again; a failed construction is not cached.
InitOutcomes == IF model_cached THEN {TRUE} ELSE BOOLEAN

StandardCall == [prompt |-> "standard", config |-> TRUE]
RagCall      == [prompt |-> "rag", config |-> FALSE]

\* ------------------------------------------------------------------------
\* get_enhanced_ai_analysis
\* ------------------------------------------------------------------------
NoResult == [analysis |-> EmptyText, method |-> "none", context_sources |-> 0]

StandardResult(text) ==
    [analysis |-> text, method |-> "Standard AI", context_sources |-> 0]

RagResult(text, docs) ==
    [analysis |-> text, method |-> "RAG-Enhanced", context_sources |-> Len(docs)]

ErrorResult ==
    [analysis |-> EnhancedErrorMsg, method |-> "Error", context_sources |-> 0]

InitAnalysis ==
    /\ pc = "start"
    /\ force_standard \in BOOLEAN
    /\ has_historical_data \in BOOLEAN
    /\ \E n \in 0..MaxDocs :
          /\ (~has_historical_data => n = 0)
          /\ documents = Corpus(n)
          /\ similarities \in [1..n -> SimVals]
    /\ model_cached \in BOOLEAN
    /\ rag_built = FALSE
    /\ rag_queried = FALSE
    /\ build_error = NoValue
    /\ rag_results = EmptyRag
    /\ model_calls = <<>>
    /\ responses = <<>>
    /\ exc_seen = {}
    /\ propagated = FALSE
    /\ result = NoResult

\* Variant: the force_standard flag is not consulted.
CheckForceStandard_Ignored ==
    /\ pc = "start"
    /\ pc' = "init_model"
    /\ UNCHANGED <<force_standard, has_historical_data, documents,
                   similarities, model_cached, rag_built, rag_queried,
                   build_error, rag_results, model_calls, responses,
                   exc_seen, propagated, result>>
    /\ UNCHANGED <<qvars, nvars, pvars, dvars, ivars, fvars, rvars, uvars>>

\* if force_standard:
CheckForceStandard ==
    /\ pc = "start"
    /\ pc' = IF force_standard THEN "forced_standard" ELSE "init_model"
    /\ UNCHANGED <<force_standard, has_historical_data, documents,
                   similarities, model_cached, rag_built, rag_queried,
                   build_error, rag_results, model_calls, responses,
                   exc_seen, propagated, result>>
    /\ UNCHANGED <<qvars, nvars, pvars, dvars, ivars, fvars, rvars, uvars>>

\* The forced standard analysis, outside the try block.
ForcedStandard ==
    /\ pc = "forced_standard"
    /\ \E init_ok \in InitOutcomes, outcome \in ModelOutcomes :
          LET r == GetSimpleAiAnalysis(init_ok, outcome) IN
          /\ model_cached' = (model_cached \/ init_ok)
          /\ model_calls' = IF r.called THEN Append(model_calls, StandardCall)
                            ELSE model_calls
          /\ responses' = IF r.called THEN Append(responses, outcome)
                          ELSE responses
          /\ exc_seen' = exc_seen \cup r.exc
          /\ propagated' = r.raised
          /\ result' = IF r.raised THEN NoResult ELSE StandardResult(r.text)
    /\ pc' = "done"
    /\ UNCHANGED <<force_standard, has_historical_data, documents,
                   similarities, rag_built, rag_queried, build_error,
                   rag_results>>
    /\ UNCHANGED <<qvars, nvars, pvars, dvars, ivars, fvars, rvars, uvars>>

\* model = init_gemini_model(), first statement of the try block.
InitModel ==
    /\ pc = "init_model"
    /\ \E init_ok \in InitOutcomes :
          IF init_ok
          THEN /\ model_cached' = TRUE
               /\ pc' = "check_historical"
               /\ UNCHANGED <<exc_seen, result>>
          ELSE /\ exc_seen' = exc_seen \cup {"init"}
               /\ result' = ErrorResult
               /\ pc' = "done"
               /\ UNCHANGED model_cached
    /\ UNCHANGED <<force_standard, has_historical_data, documents,
                   similarities, rag_built, rag_queried, build_error,
                   rag_results, model_calls, responses, propagated>>
    /\ UNCHANGED <<qvars, nvars, pvars, dvars, ivars, fvars, rvars, uvars>>

\* Variant: the store is built whether or not there is historical data.
CheckHistoricalData_Always ==
    /\ pc = "check_historical"
    /\ pc' = "create_store"
    /\ UNCHANGED <<force_standard, has_historical_data, documents,
                   similarities, model_cached, rag_built, rag_queried,
                   build_error, rag_results, model_calls, responses,
                   exc_seen, propagated, result>>
    /\ UNCHANGED <<qvars, nvars, pvars, dvars, ivars, fvars, rvars, uvars>>

\* if has_historical_data:
CheckHistoricalData ==
    /\ pc = "check_historical"
    /\ pc' = IF has_historical_data THEN "create_store" ELSE "standard"
    /\ UNCHANGED <<force_standard, has_historical_data, documents,
                   similarities, model_cached, rag_built, rag_queried,
                   build_error, rag_results, model_calls, responses,
                   exc_seen, propagated, result>>
    /\ UNCHANGED <<qvars, nvars, pvars, dvars, ivars, fvars, rvars, uvars>>

\* The error value create_simple_rag_store returns: fails tells whether
\* document preparation or vectorisation raised.
StoreError(docs, fails) ==
    IF fails THEN "exception"
    ELSE IF docs = <<>> THEN "No financial data available"
    ELSE NoValue

\* The tuple create_simple_rag_store returns: the fitted vectorizer with the
\* documents and their metadata, or no vectorizer, two empty lists and the
\* error.
StoreResult(docs, fails) ==
    LET error == StoreError(docs, fails) IN
    IF error = NoValue
    THEN [vectorizer |-> TRUE, documents |-> docs, metadata |-> docs,
          error |-> NoValue]
    ELSE [vectorizer |-> FALSE, documents |-> <<>>, metadata |-> <<>>,
          error |-> error]

\* Variant: a failing build is not absorbed by create_simple_rag_store and
\* ends the call in the orchestrator's except branch.
CreateSimpleRagStore_Raises ==
    /\ pc = "create_store"
    /\ \E fails \in BOOLEAN :
          LET error == StoreError(documents, fails) IN
          /\ build_error' = error
          /\ exc_seen' = IF fails THEN exc_seen \cup {"build"} ELSE exc_seen
          /\ pc' = IF fails THEN "done"
                   ELSE IF error = NoValue /\ documents # <<>>
                   THEN "query" ELSE "standard"
          /\ result' = IF fails THEN ErrorResult ELSE result
    /\ rag_built' = TRUE
    /\ UNCHANGED <<force_standard, has_historical_data, documents,
                   similarities, model_cached, rag_queried, rag_results,
                   model_calls, responses, propagated>>
    /\ UNCHANGED <<qvars, nvars, pvars, dvars, ivars, fvars, rvars, uvars>>

\* create_simple_rag_store(...) and `if not error and documents:`
CreateSimpleRagStore ==
    /\ pc = "create_store"
    /\ \E fails \in BOOLEAN :
          LET error == StoreError(documents, fails) IN
          /\ build_error' = error
          /\ exc_seen' = IF fails THEN exc_seen \cup {"build"} ELSE exc_seen
          /\ pc' = IF error = NoValue /\ documents # <<>>
                   THEN "query" ELSE "standard"
    /\ rag_built' = TRUE
    /\ UNCHANGED <<force_standard, has_historical_data, documents,
                   similarities, model_cached, rag_queried, rag_results,
                   model_calls, responses, propagated, result>>
    /\ UNCHANGED <<qvars, nvars, pvars, dvars, ivars, fvars, rvars, uvars>>

\* query_simple_rag(..., top_k=3) and `if rag_results['documents']:`
QueryRag ==
    /\ pc = "query"
    /\ \E fails \in BOOLEAN, order \in Argsort(similarities) :
          LET r == QueryOutcome(documents, similarities, order, TopK, fails) IN
          /\ rag_results' = r
          /\ exc_seen' = IF r.error # NoValue THEN exc_seen \cup {"query"}
                         ELSE exc_seen
          /\ pc' = IF r.documents # <<>> THEN "generate_enhanced"
                   ELSE "standard"
    /\ rag_queried' = TRUE
    /\ UNCHANGED <<force_standard, has_historical_data, documents,
                   similarities, model_cached, rag_built, build_error,
                   model_calls, responses, propagated, result>>
    /\ UNCHANGED <<qvars, nvars, pvars, dvars, ivars, fvars, rvars, uvars>>

\* Variant: the source count is taken from the scores list.
EnhancedResult_Scores(text, rag) == RagResult(text, rag.scores)

\* The result built from the model's answer to the enhanced prompt.
EnhancedResult(text, rag) == RagResult(text, rag.documents)

\* Variant: the standard analysis follows the enhanced call whatever the
\* model answered.
GenerateEnhanced_AlwaysFallsBack ==
    /\ pc = "generate_enhanced"
    /\ \E outcome \in ModelOutcomes :
          /\ model_calls' = Append(model_calls, RagCall)
          /\ responses' = Append(responses, outcome)
          /\ IF outcome = Raise
             THEN /\ exc_seen' = exc_seen \cup {"rag_invoke"}
                  /\ result' = ErrorResult
                  /\ pc' = "done"
             ELSE /\ pc' = "standard"
                  /\ UNCHANGED <<exc_seen, result>>
    /\ UNCHANGED <<force_standard, has_historical_data, documents,
                   similarities, model_cached, rag_built, rag_queried,
                   build_error, rag_results, propagated>>
    /\ UNCHANGED <<qvars, nvars, pvars, dvars, ivars, fvars, rvars, uvars>>

\* response = model.generate_content(enhanced_prompt) and the test of it.
GenerateEnhanced ==
    /\ pc = "generate_enhanced"
    /\ \E outcome \in ModelOutcomes :
          /\ model_calls' = Append(model_calls, RagCall)
          /\ responses' = Append(responses, outcome)
          /\ IF outcome = Raise
             THEN /\ exc_seen' = exc_seen \cup {"rag_invoke"}
                  /\ result' = ErrorResult
                  /\ pc' = "done"
             ELSE IF Truthy(outcome)
             THEN /\ result' = EnhancedResult(outcome, rag_results)
                  /\ pc' = "done"
                  /\ UNCHANGED exc_seen
             ELSE /\ pc' = "standard"
                  /\ UNCHANGED <<exc_seen, result>>
    /\ UNCHANGED <<force_standard, has_historical_data, documents,
                   similarities, model_cached, rag_built, rag_queried,
                   build_error, rag_results, propagated>>
    /\ UNCHANGED <<qvars, nvars, pvars, dvars, ivars, fvars, rvars, uvars>>

\* The fallback to the standard analysis, inside the try block.
StandardFallback ==
    /\ pc = "standard"
    /\ \E init_ok \in InitOutcomes, outcome \in ModelOutcomes :
          LET r == GetSimpleAiAnalysis(init_ok, outcome) IN
          /\ model_cached' = (model_cached \/ init_ok)
          /\ model_calls' = IF r.called THEN Append(model_calls, StandardCall)
                            ELSE model_calls
          /\ responses' = IF r.called THEN Append(responses, outcome)
                          ELSE responses
          /\ exc_seen' = exc_seen \cup r.exc
          /\ result' = IF r.raised THEN ErrorResult ELSE StandardResult(r.text)
    /\ pc' = "done"
    /\ UNCHANGED <<force_standard, has_historical_data, documents,
                   similarities, rag_built, rag_queried, build_error,
                   rag_results, propagated>>
    /\ UNCHANGED <<qvars, nvars, pvars, dvars, ivars, fvars, rvars, uvars>>

\* ------------------------------------------------------------------------
\* get_multi_year_financial_data / calculate_historical_ratios
\* ------------------------------------------------------------------------
\* A year label is the 4-character string str(year); labels of equal width
\* compare as their numbers do, so a label is modelled by its number.
\* NoDate is a report without "year" and "date"; Null is a missing (None/NaN)
\* amount.
NoDate == 0
Null == -1
Years == {2021, 2022, 2023}
RevenueVals == {Null, 100, 200}
IncomeVals == {Null, 10, 50}

\* A yearly report of the Finnhub answer; the amounts of a report without a
\* date are never read.
Undated == [year |-> NoDate, totalRevenue |-> Null, netIncome |-> Null]
Reports == [year : Years, totalRevenue : RevenueVals, netIncome : IncomeVals]
           \cup {Undated}
\* A column of the Yahoo financials frame.
YahooColumns == [year : Years, totalRevenue : RevenueVals,
                 netIncome : IncomeVals]

SeqsUpTo(S, n) == UNION {[1..k -> S] : k \in 0..n}

Absent == [present |-> FALSE, dates |-> <<>>, values |-> <<>>]
Timeline(dates, values) == [present |-> TRUE, dates |-> dates, values |-> values]

EmptyFinancial == [revenue |-> Absent, net_income |-> Absent]
EmptyRatios == [revenue_growth |-> Absent, profit_margin |-> Absent]

\* `not financial_timeline`
IsEmptyDict(ft) == ~ft.revenue.present /\ ~ft.net_income.present

\* Variant: a missing amount is kept as it is.
OrZero_Kept(v) == v

\* report.get(field, 0) or 0
OrZero(v) == IF v = Null THEN 0 ELSE v

\* bool(multi_year_data.get('financial_data'))
HasHistoricalData(ft) == ~IsEmptyDict(ft)

\* for year_data in fin_data[:6]: ... if date != "N/A": append
Dated(fin_data) ==
    SelectSeq(Prefix(fin_data, MaxPeriods), LAMBDA r : r.year # NoDate)

\* The order in which a source's periods are stored in the timeline.
FinnhubOrder(s) == Reverse(s)
YahooOrder(s) == s

\* The timelines built from the Finnhub reports.
FinnhubTimeline(fin_data) ==
    LET kept == Dated(fin_data)
        dates == [k \in 1..Len(kept) |-> kept[k].year]
        revenues == [k \in 1..Len(kept) |-> OrZero(kept[k].totalRevenue)]
        net_incomes == [k \in 1..Len(kept) |-> OrZero(kept[k].netIncome)]
    IN IF dates = <<>> THEN EmptyFinancial
       ELSE [revenue    |-> Timeline(FinnhubOrder(dates), FinnhubOrder(revenues)),
             net_income |-> Timeline(FinnhubOrder(dates), FinnhubOrder(net_incomes))]

\* financials.loc[row].dropna(): the columns whose amount in that row is
\* not NaN, as a timeline of year labels and amounts.
YahooSeries(columns, row) ==
    LET kept == SelectSeq(columns, LAMBDA c : c[row] # Null)
    IN Timeline(YahooOrder([k \in 1..Len(kept) |-> kept[k].year]),
                YahooOrder([k \in 1..Len(kept) |-> kept[k][row]]))

\* The timelines built from a Yahoo financials frame; an empty frame has
\* neither row.
YahooTimeline(columns) ==
    IF columns = <<>> THEN EmptyFinancial
    ELSE [revenue    |-> YahooSeries(columns, "totalRevenue"),
          net_income |-> YahooSeries(columns, "netIncome")]

\* ((curr - prev) / prev) * 100 and (income / revenue) * 100 as exact fractions
Frac(num, den) == [num |-> num, den |-> den]
Growth(prev, curr) == Frac((curr - prev) * 100, prev)
Margin(income, revenue) == Frac(income * 100, revenue)

RECURSIVE SortedSeq(_)
SortedSeq(S) ==
    IF S = {} THEN <<>>
    ELSE LET m == CHOOSE x \in S : \A y \in S : x <= y
         IN <<m>> \o SortedSeq(S \ {m})

\* list.index(x)
IndexOf(s, x) == CHOOSE i \in 1..Len(s) : s[i] = x /\ \A j \in 1..(i - 1) : s[j] # x

\* growth_rates: one rate per i >= 1 whose previous value is not zero
GrowthRates(values) ==
    LET idx == SelectSeq([i \in 1..(Len(values) - 1) |-> i + 1],
                         LAMBDA i : values[i - 1] # 0)
    IN [k \in 1..Len(idx) |-> Growth(values[idx[k] - 1], values[idx[k]])]

\* ratios['revenue_growth']
RevenueGrowth(ft) ==
    IF ft.revenue.present /\ Len(ft.revenue.values) > 1
       /\ GrowthRates(ft.revenue.values) # <<>>
    THEN Timeline(Tail(ft.revenue.dates), GrowthRates(ft.revenue.values))
    ELSE Absent

\* Variant: the common dates are visited in the order of the revenue
\* timeline instead of sorted order.
ProfitMargin_Unsorted(ft) ==
    LET rev == ft.revenue
        inc == ft.net_income
        kept == SelectSeq(rev.dates,
                    LAMBDA d : d \in Range(inc.dates)
                               /\ rev.values[IndexOf(rev.dates, d)] # 0)
    IN IF rev.present /\ inc.present /\ kept # <<>>
       THEN Timeline(kept,
                [k \in 1..Len(kept) |->
                    Margin(inc.values[IndexOf(inc.dates, kept[k])],
                           rev.values[IndexOf(rev.dates, kept[k])])])
       ELSE Absent

\* ratios['profit_margin']
ProfitMargin(ft) ==
    LET rev == ft.revenue
        inc == ft.net_income
        common == Range(rev.dates) \cap Range(inc.dates)
        kept == SelectSeq(SortedSeq(common),
                    LAMBDA d : rev.values[IndexOf(rev.dates, d)] # 0)
    IN IF rev.present /\ inc.present /\ kept # <<>>
       THEN Timeline(kept,
                [k \in 1..Len(kept) |->
                    Margin(inc.values[IndexOf(inc.dates, kept[k])],
                           rev.values[IndexOf(rev.dates, kept[k])])])
       ELSE Absent

CalculateHistoricalRatios(ft) ==
    [revenue_growth |-> RevenueGrowth(ft), profit_margin |-> ProfitMargin(ft)]

\* A provider reports a fiscal year once, in whatever order it lists them.
DistinctYears(s) ==
    \A i, j \in 1..Len(s) :
        i # j /\ s[i].year # NoDate /\ s[j].year # NoDate
            => s[i].year # s[j].year

\* A history one period longer than the normalizer keeps, newest first, as
\* the providers list it.
LongHistory ==
    [k \in 1..(MaxPeriods + 1) |->
        [year |-> 2024 - k, totalRevenue |-> 100, netIncome |-> 10]]

\* The long history, complete or with one report lacking its date.
LongFinnhub ==
    {LongHistory}
    \cup {[LongHistory EXCEPT ![k] = Undated] : k \in 1..(MaxPeriods + 1)}

\* What the Finnhub request can yield: a failure, or a list of reports.
FinnhubInputs ==
    {[success |-> FALSE, data |-> <<>>]}
    \cup {[success |-> TRUE, data |-> d] :
             d \in {x \in SeqsUpTo(Reports, MaxReports) : DistinctYears(x)}
                   \cup LongFinnhub}

\* The frames ticker.financials can yield.
YahooInputs ==
    {x \in SeqsUpTo(YahooColumns, MaxReports) : DistinctYears(x)}
    \cup {LongHistory}

InitNorm ==
    /\ n_pc = "finnhub"
    /\ finnhub \in FinnhubInputs
    /\ yahoo \in IF finnhub.success /\ Dated(finnhub.data) # <<>>
                 THEN {<<>>} ELSE YahooInputs
    /\ attempt = 0
    /\ financial_timeline = EmptyFinancial
    /\ ratios_timeline = EmptyRatios
    /\ n_error = NoValue

\* Primary source: Finnhub standardized financials.
FetchFinnhub ==
    /\ n_pc = "finnhub"
    /\ financial_timeline' =
          IF finnhub.success /\ finnhub.data # <<>>
          THEN FinnhubTimeline(finnhub.data) ELSE EmptyFinancial
    /\ n_pc' = IF IsEmptyDict(financial_timeline') THEN "yahoo" ELSE "ratios"
    /\ UNCHANGED <<finnhub, yahoo, attempt, ratios_timeline, n_error>>
    /\ UNCHANGED <<avars, qvars, pvars, dvars, ivars, fvars, rvars, uvars>>

\* One pass of the fallback's retry loop: ticker.financials raises and the
\* loop sleeps and goes on, or the frame is read and the loop breaks.
YahooAttempt ==
    /\ n_pc = "yahoo"
    /\ attempt < YahooAttempts
    /\ \E raises \in BOOLEAN :
          IF raises
          THEN /\ attempt' = attempt + 1
               /\ n_pc' = IF attempt + 1 < YahooAttempts THEN "yahoo" ELSE "ratios"
               /\ UNCHANGED financial_timeline
          ELSE /\ financial_timeline' = YahooTimeline(yahoo)
               /\ n_pc' = "ratios"
               /\ UNCHANGED attempt
    /\ UNCHANGED <<finnhub, yahoo, ratios_timeline, n_error>>
    /\ UNCHANGED <<avars, qvars, pvars, dvars, ivars, fvars, rvars, uvars>>

\* if financial_timeline: ratios_timeline = calculate_historical_ratios(...)
\* and the return statement.
ReturnTimelines ==
    /\ n_pc = "ratios"
    /\ ratios_timeline' = IF IsEmptyDict(financial_timeline) THEN EmptyRatios
                          ELSE CalculateHistoricalRatios(financial_timeline)
    /\ n_pc' = "returned"
    /\ UNCHANGED <<finnhub, yahoo, attempt, financial_timeline, n_error>>
    /\ UNCHANGED <<avars, qvars, pvars, dvars, ivars, fvars, rvars, uvars>>

\* ------------------------------------------------------------------------
\* query_simple_rag on its own
\* ------------------------------------------------------------------------
NoStore == [vectorizer |-> FALSE, documents |-> <<>>, metadata |-> <<>>,
            error |-> NoValue]

InitQuery ==
    /\ q_pc = "ready"
    /\ \E n \in 0..MaxQueryDocs :
          /\ q_documents = Corpus(n)
          /\ q_similarities \in [1..n -> SimVals]
    /\ q_top_k \in 1..MaxTopK
    /\ q_store = NoStore
    /\ q_result = EmptyRag

\* One call of create_simple_rag_store on the corpus.
BuildStore ==
    /\ q_pc = "ready"
    /\ \E fails \in BOOLEAN : q_store' = StoreResult(q_documents, fails)
    /\ q_pc' = "built"
    /\ UNCHANGED <<q_documents, q_similarities, q_top_k, q_result>>
    /\ UNCHANGED <<avars, nvars, pvars, dvars, ivars, fvars, rvars, uvars>>

\* One call of query_simple_rag on the corpus; a raising transform is
\* answered by the except branch with three empty lists and the error.
Query ==
    /\ q_pc = "built"
    /\ \E fails \in BOOLEAN, order \in Argsort(q_similarities) :
          /\ q_result' = QueryOutcome(q_documents, q_similarities, order,
                                      q_top_k, fails)
          /\ q_pc' = IF q_result'.error # NoValue THEN "failed" ELSE "returned"
    /\ UNCHANGED <<q_documents, q_similarities, q_top_k, q_store>>
    /\ UNCHANGED <<avars, nvars, pvars, dvars, ivars, fvars, rvars, uvars>>

\* ------------------------------------------------------------------------
\* Exact arithmetic on ratios: fractions with a positive denominator, kept
\* in lowest terms
\* ------------------------------------------------------------------------
Abs(x) == IF x < 0 THEN -x ELSE x

RECURSIVE GCD(_, _)
GCD(a, b) == IF b = 0 THEN a ELSE GCD(b, a % b)

Reduce(f) ==
    LET g == GCD(Abs(f.num), f.den) IN Frac(f.num \div g, f.den \div g)

Whole(n) == Frac(n, 1)
FLt(a, b) == a.num * b.den < b.num * a.den
FLe(a, b) == a.num * b.den <= b.num * a.den
FAbs(f) == Reduce(Frac(Abs(f.num), f.den))
\* f * (n / d), for the decimal factors of the code (1.02 is 102 / 100)
FScale(f, n, d) == Reduce(Frac(f.num * n, f.den * d))
FAdd(a, b) == Reduce(Frac(a.num * b.den + b.num * a.den, a.den * b.den))
FSub(a, b) == Reduce(Frac(a.num * b.den - b.num * a.den, a.den * b.den))
FMul(a, b) == Reduce(Frac(a.num * b.num, a.den * b.den))
\* min(a, b) and max(a, b)
FMin(a, b) == IF FLt(b, a) THEN b ELSE a
FMax(a, b) == IF FLt(a, b) THEN b ELSE a

RECURSIVE FSum(_)
FSum(s) == IF s = <<>> THEN Whole(0) ELSE FAdd(Head(s), FSum(Tail(s)))

\* np.mean of a non-empty list
FMean(s) == LET t == FSum(s) IN Reduce(Frac(t.num, t.den * Len(s)))

\* np.std(s) ** 2: the population variance
Variance(s) ==
    LET m == FMean(s)
    IN FMean([k \in 1..Len(s) |-> FMul(FSub(s[k], m), FSub(s[k], m))])

\* ------------------------------------------------------------------------
\* get_predictive_insights
\* ------------------------------------------------------------------------
\* None in a list of ratio values
NullRate == Frac(0, 0)

\* Variant: the rates keep their sign.
RecentGrowth_Signed(values) ==
    LET kept == SelectSeq(Suffix(values, 3), LAMBDA x : x # NullRate)
    IN [k \in 1..Len(kept) |-> Reduce(kept[k])]

\* [abs(float(x)) for x in growth_data['values'][-3:] if x is not None]
RecentGrowth(values) ==
    LET kept == SelectSeq(Suffix(values, 3), LAMBDA x : x # NullRate)
    IN [k \in 1..Len(kept) |-> FAbs(kept[k])]

\* Variant: the decrease branch has no floor.
PredictedValue_NoFloor(recent_growth) ==
    LET n == Len(recent_growth)
        latest == recent_growth[n]
        previous == recent_growth[n - 1]
    IN IF n = 0 THEN Whole(5)
       ELSE IF n >= 2
            THEN IF FLt(previous, latest)
                 THEN FMin(FScale(latest, 102, 100), Whole(12))
                 ELSE FScale(latest, 98, 100)
            ELSE FMean(recent_growth)

\* prediction, from the usable rates among the last three
PredictedValue(recent_growth) ==
    LET n == Len(recent_growth)
        latest == recent_growth[n]
        previous == recent_growth[n - 1]
    IN IF n = 0 THEN Whole(5)
       ELSE IF n >= 2
            THEN IF FLt(previous, latest)
                 THEN FMin(FScale(latest, 102, 100), Whole(12))
                 ELSE FMax(FScale(latest, 98, 100), Whole(2))
            ELSE FMean(recent_growth)

\* confidence
Confidence(recent_growth) ==
    IF Len(recent_growth) >= 2 THEN "medium" ELSE "low"

\* The insight appended for the revenue growth prediction.
RevenuePrediction(values) ==
    LET recent_growth == RecentGrowth(values)
    IN [type            |-> "revenue_prediction",
        predicted_value |-> PredictedValue(recent_growth),
        confidence      |-> Confidence(recent_growth),
        years           |-> Len(recent_growth)]

\* stability_desc: np.std(margins) < 2, < 5, compared as variances
StabilityDesc(margins) ==
    IF FLt(Variance(margins), Whole(4)) THEN "highly stable"
    ELSE IF FLt(Variance(margins), Whole(25)) THEN "moderately stable"
    ELSE "volatile"

\* The insight appended for the profit margin stability.
MarginStability(margins) ==
    [type           |-> "margin_stability",
     stability      |-> StabilityDesc(margins),
     average_margin |-> FMean(margins)]

\* np.std and np.mean raise on a list that holds None.
MarginRaises(rt) ==
    /\ rt.profit_margin.present
    /\ Len(rt.profit_margin.values) >= 3
    /\ NullRate \in Range(rt.profit_margin.values)

\* [{'error': str(e)}]
ErrorRecord == [error |-> "exception"]

\* The ratio values the estimator is given: rates around the branch
\* thresholds, and None.
GrowthVals == {NullRate, Frac(1, 5), Frac(1, 2), Frac(-20, 1)}
MarginVals == {NullRate, Frac(10, 1), Frac(14, 1), Frac(22, 1)}

\* The ratio timeline holding the given values, absent when there are none.
RatioTimeline(values) ==
    IF values = <<>> THEN Absent
    ELSE Timeline([k \in 1..Len(values) |-> 2020 + k], values)

RatiosTimeline(growth, margins) ==
    [revenue_growth |-> RatioTimeline(growth),
     profit_margin  |-> RatioTimeline(margins)]

InitPredict ==
    /\ p_pc = "ready"
    /\ \E g \in SeqsUpTo(GrowthVals, MaxGrowth),
          m \in SeqsUpTo(MarginVals, MaxMargins) :
              p_ratios = RatiosTimeline(g, m)
    /\ p_insights = <<>>
    /\ p_result = <<>>

\* Revenue Growth Prediction
EstimateRevenue ==
    /\ p_pc = "ready"
    /\ p_insights' =
          IF p_ratios.revenue_growth.present
             /\ Len(p_ratios.revenue_growth.values) >= 3
          THEN Append(p_insights,
                      RevenuePrediction(p_ratios.revenue_growth.values))
          ELSE p_insights
    /\ p_pc' = "revenue_done"
    /\ UNCHANGED <<p_ratios, p_result>>
    /\ UNCHANGED <<avars, qvars, nvars, dvars, ivars, fvars, rvars, uvars>>

\* Variant: the except branch returns the insights gathered so far together
\* with the error record.
EstimateMargin_KeepsInsights ==
    /\ p_pc = "revenue_done"
    /\ IF MarginRaises(p_ratios)
       THEN /\ p_insights' = p_insights
            /\ p_result' = Append(p_insights, ErrorRecord)
       ELSE /\ p_insights' =
                  IF p_ratios.profit_margin.present
                     /\ Len(p_ratios.profit_margin.values) >= 3
                  THEN Append(p_insights,
                              MarginStability(p_ratios.profit_margin.values))
                  ELSE p_insights
            /\ p_result' = p_insights'
    /\ p_pc' = "returned"
    /\ UNCHANGED p_ratios
    /\ UNCHANGED <<avars, qvars, nvars, dvars, ivars, fvars, rvars, uvars>>

\* Profit Margin Stability, and the return: the insights, or the error
\* record alone when the margin statistics raised.
EstimateMargin ==
    /\ p_pc = "revenue_done"
    /\ IF MarginRaises(p_ratios)
       THEN /\ p_insights' = p_insights
            /\ p_result' = <<ErrorRecord>>
       ELSE /\ p_insights' =
                  IF p_ratios.profit_margin.present
                     /\ Len(p_ratios.profit_margin.values) >= 3
                  THEN Append(p_insights,
                              MarginStability(p_ratios.profit_margin.values))
                  ELSE p_insights
            /\ p_result' = p_insights'
    /\ p_pc' = "returned"
    /\ UNCHANGED p_ratios
    /\ UNCHANGED <<avars, qvars, nvars, dvars, ivars, fvars, rvars, uvars>>

\* ------------------------------------------------------------------------
\* prepare_financial_documents
\* ------------------------------------------------------------------------
\* A part a sentence or a metadata entry does not have.
NoAmount == Frac(0, 0)
NoPeriod == <<>>

\* What varies in a generated sentence: its kind, the year or period it
\* names, the word chosen for it and the figures printed in it.
Doc(type, year, period, label, value, change) ==
    [type |-> type, year |-> year, period |-> period, label |-> label,
     value |-> value, change |-> change]

\* The metadata entry appended with a sentence.
Meta(type, year, period, label, value) ==
    [type |-> type, year |-> year, period |-> period, label |-> label,
     value |-> value]

Entry(doc, meta) == [doc |-> doc, meta |-> meta]

\* zip(a, b) stops at the shorter list.
ZipLen(a, b) == IF Len(a) <= Len(b) THEN Len(a) ELSE Len(b)

\* Section 1 divides by the previous revenue of every period after the first.
RevenueRaises(fd) ==
    /\ fd.revenue.present
    /\ \E i \in 2..ZipLen(fd.revenue.dates, fd.revenue.values) :
          fd.revenue.values[i - 1] = 0

\* 1. Revenue Documents
RevenueDocuments(fd) ==
    LET dates == fd.revenue.dates
        values == fd.revenue.values
    IN IF ~fd.revenue.present THEN <<>>
       ELSE [i \in 1..ZipLen(dates, values) |->
               Entry(Doc("revenue", dates[i], NoPeriod, NoValue,
                         Whole(values[i]),
                         IF i > 1 THEN Reduce(Growth(values[i - 1], values[i]))
                         ELSE NoAmount),
                     Meta("revenue", dates[i], NoPeriod, NoValue,
                          Whole(values[i])))]

\* 2. Profitability Documents: the change is printed only after a previous
\* value that is not zero.
IncomeDocuments(fd) ==
    LET dates == fd.net_income.dates
        values == fd.net_income.values
        change(i) == Reduce(Growth(values[i - 1], values[i]))
    IN IF ~fd.net_income.present THEN <<>>
       ELSE [i \in 1..ZipLen(dates, values) |->
               Entry(IF i > 1 /\ values[i - 1] # 0
                     THEN Doc("net_income", dates[i], NoPeriod,
                              IF change(i).num > 0 THEN "increased"
                              ELSE "decreased",
                              Whole(values[i]), FAbs(change(i)))
                     ELSE Doc("net_income", dates[i], NoPeriod, NoValue,
                              Whole(values[i]), NoAmount),
                     Meta("net_income", dates[i], NoPeriod, NoValue,
                          Whole(values[i])))]

\* growth_desc
GrowthDesc(growth_rate) ==
    IF FLt(Whole(10), growth_rate) THEN "strong"
    ELSE IF FLt(Whole(5), growth_rate) THEN "moderate"
    ELSE IF FLt(Whole(0), growth_rate) THEN "modest"
    ELSE "negative"

\* 3. Growth Rate Documents
GrowthDocuments(rt) ==
    LET dates == rt.revenue_growth.dates
        values == rt.revenue_growth.values
    IN IF ~rt.revenue_growth.present THEN <<>>
       ELSE [i \in 1..ZipLen(dates, values) |->
               Entry(Doc("revenue_growth", dates[i], NoPeriod,
                         GrowthDesc(values[i]), Reduce(values[i]), NoAmount),
                     Meta("revenue_growth", dates[i], NoPeriod, NoValue,
                          Reduce(values[i])))]

\* margin_desc
MarginDesc(margin) ==
    IF FLt(Whole(20), margin) THEN "excellent"
    ELSE IF FLt(Whole(15), margin) THEN "strong"
    ELSE IF FLt(Whole(10), margin) THEN "healthy"
    ELSE "concerning"

\* 4. Profit Margin Documents
MarginDocuments(rt) ==
    LET dates == rt.profit_margin.dates
        values == rt.profit_margin.values
    IN IF ~rt.profit_margin.present THEN <<>>
       ELSE [i \in 1..ZipLen(dates, values) |->
               Entry(Doc("profit_margin", dates[i], NoPeriod,
                         MarginDesc(values[i]), Reduce(values[i]), NoAmount),
                     Meta("profit_margin", dates[i], NoPeriod, NoValue,
                          Reduce(values[i])))]

\* Section 5 divides by the first and by the second of the last three
\* revenues.
TrendRaises(fd) ==
    /\ Len(fd.revenue.values) >= 3
    /\ LET revenue_values == Suffix(fd.revenue.values, 3)
       IN revenue_values[1] = 0 \/ revenue_values[2] = 0

\* 5. Trend Analysis Documents
TrendDocuments(fd) ==
    IF Len(fd.revenue.values) < 3 THEN <<>>
    ELSE LET revenue_values == Suffix(fd.revenue.values, 3)
             revenue_dates == Suffix(fd.revenue.dates, 3)
             growth_1 == Growth(revenue_values[1], revenue_values[2])
             growth_2 == Growth(revenue_values[2], revenue_values[3])
             trend == IF FLt(growth_1, growth_2) THEN "accelerating"
                      ELSE IF FLt(growth_2, growth_1) THEN "decelerating"
                      ELSE "stable"
             period == <<revenue_dates[1], revenue_dates[Len(revenue_dates)]>>
         IN <<Entry(Doc("trend_analysis", NoDate, period, trend,
                        Reduce(growth_1), Reduce(growth_2)),
                    Meta("trend_analysis", NoDate, period, trend, NoAmount))>>

\* prediction and next_year_growth, from the magnitudes of the last three
\* growth rates
Projection(valid_growth_values) ==
    LET avg_growth == FMean(valid_growth_values)
        recent_growth == valid_growth_values[Len(valid_growth_values)]
        earlier_growth == valid_growth_values[1]
    IN IF Len(valid_growth_values) >= 2
       THEN IF FLt(FScale(earlier_growth, 11, 10), recent_growth)
            THEN [prediction |-> "improving",
                  next_year_growth |-> FMin(FScale(recent_growth, 105, 100),
                                            Whole(15))]
            ELSE IF FLt(recent_growth, FScale(earlier_growth, 9, 10))
            THEN [prediction |-> "declining",
                  next_year_growth |-> FMax(FScale(recent_growth, 95, 100),
                                            Whole(1))]
            ELSE [prediction |-> "stable", next_year_growth |-> avg_growth]
       ELSE [prediction |-> "stable", next_year_growth |-> avg_growth]

\* 6. Predictive Insights Documents
PredictiveDocuments(rt) ==
    IF ~rt.revenue_growth.present \/ Len(rt.revenue_growth.values) < 3
    THEN <<>>
    ELSE LET growth_dates == Suffix(rt.revenue_growth.dates, 3)
             valid_growth_values == RecentGrowth(rt.revenue_growth.values)
             p == Projection(valid_growth_values)
             period == <<growth_dates[1], growth_dates[Len(growth_dates)]>>
         IN <<Entry(Doc("predictive_analysis", NoDate, period, p.prediction,
                        p.next_year_growth, FMean(valid_growth_values)),
                    Meta("predictive_analysis", NoDate, period, p.prediction,
                         p.next_year_growth))>>

\* 7. Current vs Historical Comparison Documents
ComparisonDocuments(fd, rt, cm) ==
    IF cm.present /\ ~IsEmptyDict(fd) /\ rt.profit_margin.present
       /\ rt.profit_margin.values # <<>>
    THEN LET avg_hist_margin == FMean(rt.profit_margin.values)
             current_margin == Whole(cm.netProfitMarginAnnual)
         IN <<Entry(Doc("comparison", NoDate, NoPeriod,
                        IF FLt(avg_hist_margin, current_margin)
                        THEN "improved" ELSE "declined",
                        current_margin, avg_hist_margin),
                    Meta("comparison", NoDate, NoPeriod, NoValue, NoAmount))>>
    ELSE <<>>

\* max(revenues) and min(revenues)
MaxOf(s) == CHOOSE x \in Range(s) : \A y \in Range(s) : y <= x
MinOf(s) == CHOOSE x \in Range(s) : \A y \in Range(s) : x <= y

\* revenue_stability
RevenueStability(revenues) ==
    IF MinOf(revenues) > 0 THEN Reduce(Frac(MaxOf(revenues), MinOf(revenues)))
    ELSE Whole(1)

\* stability_desc of the revenue range factor
StabilityLabel(revenue_stability) ==
    IF FLt(revenue_stability, Frac(3, 2)) THEN "highly stable"
    ELSE IF FLt(revenue_stability, Whole(2)) THEN "moderately stable"
    ELSE "volatile"

\* 8. Financial Stability Documents
StabilityDocuments(fd) ==
    IF fd.revenue.present /\ Len(fd.revenue.values) >= 2
    THEN LET revenue_stability == RevenueStability(fd.revenue.values)
         IN <<Entry(Doc("stability", NoDate, NoPeriod,
                        StabilityLabel(revenue_stability), revenue_stability,
                        NoAmount),
                    Meta("stability", NoDate, NoPeriod, NoValue, NoAmount))>>
    ELSE <<>>

\* One call of prepare_financial_documents: the two lists it returns, or
\* the exception that leaves it.
PrepareFinancialDocuments(fd, rt, cm) ==
    IF RevenueRaises(fd) \/ TrendRaises(fd)
    THEN [raised |-> TRUE, documents |-> <<>>, metadata |-> <<>>]
    ELSE LET entries == RevenueDocuments(fd) \o IncomeDocuments(fd)
                        \o GrowthDocuments(rt) \o MarginDocuments(rt)
                        \o TrendDocuments(fd) \o PredictiveDocuments(rt)
                        \o ComparisonDocuments(fd, rt, cm)
                        \o StabilityDocuments(fd)
         IN [raised    |-> FALSE,
             documents |-> [k \in 1..Len(entries) |-> entries[k].doc],
             metadata  |-> [k \in 1..Len(entries) |-> entries[k].meta]]

\* The yearly figures of the timelines given to the synthesizer: revenues
\* and net incomes whose growth rates, margins and range factors fall on
\* both sides of every label threshold, and 0 for a field the provider left
\* out.
DocPeriods ==
    {[totalRevenue |-> 0, netIncome |-> 0],
     [totalRevenue |-> 100, netIncome |-> 18],
     [totalRevenue |-> 100, netIncome |-> 30],
     [totalRevenue |-> 104, netIncome |-> 0],
     [totalRevenue |-> 112, netIncome |-> 18],
     [totalRevenue |-> 200, netIncome |-> 18],
     [totalRevenue |-> 200, netIncome |-> 30]}

\* The metric dictionary of the snapshot: empty, or with the current margin.
NoMetrics == [present |-> FALSE, netProfitMarginAnnual |-> 0]
CurrentMetrics == {NoMetrics, [present |-> TRUE, netProfitMarginAnnual |-> 20]}

\* The financial timelines the normalizer hands over: none, or revenue and
\* net income of the same consecutive years, oldest first.
FinancialData(periods) ==
    IF periods = <<>> THEN EmptyFinancial
    ELSE LET dates == [k \in 1..Len(periods) |-> 2020 + k]
         IN [revenue    |-> Timeline(dates,
                 [k \in 1..Len(periods) |-> periods[k].totalRevenue]),
             net_income |-> Timeline(dates,
                 [k \in 1..Len(periods) |-> periods[k].netIncome])]

InitDocs ==
    /\ d_pc = "ready"
    /\ \E periods \in SeqsUpTo(DocPeriods, MaxTimeline) :
          d_financial = FinancialData(periods)
    /\ d_ratios = IF IsEmptyDict(d_financial) THEN EmptyRatios
                  ELSE CalculateHistoricalRatios(d_financial)
    /\ d_metrics \in CurrentMetrics
    /\ d_raised = FALSE
    /\ d_documents = <<>>
    /\ d_metadata = <<>>

\* One call of prepare_financial_documents on the snapshot.
PrepareDocuments ==
    /\ d_pc = "ready"
    /\ LET r == PrepareFinancialDocuments(d_financial, d_ratios, d_metrics)
       IN /\ d_raised' = r.raised
          /\ d_documents' = r.documents
          /\ d_metadata' = r.metadata
    /\ d_pc' = "done"
    /\ UNCHANGED <<d_financial, d_ratios, d_metrics>>
    /\ UNCHANGED <<avars, qvars, nvars, pvars, ivars, fvars, rvars, uvars>>

\* ------------------------------------------------------------------------
\* The retrieval index across sessions: init_simple_rag_system is cached as
\* a resource, so every build fits the same TfidfVectorizer object;
\* create_simple_rag_store is cached as data, so its return value is stored
\* as a pickled snapshot per ticker, a caller that computed it gets the
\* object itself and a later caller gets a copy of the snapshot.  Each
\* session runs its script in a thread of its own.  A corpus is named by
\* its ticker.
\* ------------------------------------------------------------------------
Sessions == 1..MaxSessions
Tickers == 1..MaxTickers

Unfitted == 0
NoEntry == 0

\* The vectorizer a session holds: the shared object, or a copy with the
\* vocabulary it was pickled with.
SharedObject == [shared |-> TRUE, vocabulary |-> Unfitted]
Copy(vocabulary) == [shared |-> FALSE, vocabulary |-> vocabulary]
NoIndex == Copy(Unfitted)

\* The vocabulary a held vectorizer has at this moment.
Vocabulary(index) == IF index.shared THEN vectorizer ELSE index.vocabulary

\* The entry of a ticker is being computed by some session: st.cache_data
\* computes one key in one thread at a time.
Computing(t) ==
    \E o \in Sessions : s_pc[o] \in {"building", "fitted"} /\ s_ticker[o] = t

InitIndex ==
    /\ vectorizer = Unfitted
    /\ store_cache = [t \in Tickers |-> NoEntry]
    /\ s_pc = [s \in Sessions |-> "idle"]
    /\ s_ticker = [s \in Sessions |-> 1]
    /\ s_index = [s \in Sessions |-> NoIndex]
    /\ s_used = [s \in Sessions |-> Unfitted]

\* create_simple_rag_store is called for a ticker whose entry is cached: the
\* caller gets a copy of the snapshot.
CacheHit ==
    /\ \E s \in Sessions, t \in Tickers :
          /\ s_pc[s] = "idle"
          /\ store_cache[t] # NoEntry
          /\ s_ticker' = [s_ticker EXCEPT ![s] = t]
          /\ s_index' = [s_index EXCEPT ![s] = Copy(store_cache[t])]
          /\ s_pc' = [s_pc EXCEPT ![s] = "holding"]
    /\ UNCHANGED <<vectorizer, store_cache, s_used>>
    /\ UNCHANGED <<avars, qvars, nvars, pvars, dvars, fvars, rvars, uvars>>

\* create_simple_rag_store is called for a ticker without an entry: the
\* body starts to run.
CacheMiss ==
    /\ \E s \in Sessions, t \in Tickers :
          /\ s_pc[s] = "idle"
          /\ store_cache[t] = NoEntry
          /\ ~Computing(t)
          /\ s_ticker' = [s_ticker EXCEPT ![s] = t]
          /\ s_pc' = [s_pc EXCEPT ![s] = "building"]
    /\ UNCHANGED <<vectorizer, store_cache, s_index, s_used>>
    /\ UNCHANGED <<avars, qvars, nvars, pvars, dvars, fvars, rvars, uvars>>

\* vectorizer.fit_transform(documents) on the object init_simple_rag_system
\* returns to every caller.
FitTransform ==
    /\ \E s \in Sessions :
          /\ s_pc[s] = "building"
          /\ vectorizer' = s_ticker[s]
          /\ s_pc' = [s_pc EXCEPT ![s] = "fitted"]
    /\ UNCHANGED <<store_cache, s_ticker, s_index, s_used>>
    /\ UNCHANGED <<avars, qvars, nvars, pvars, dvars, fvars, rvars, uvars>>

\* return vectorizer, documents, metadata, None: the cache pickles the
\* vectorizer as it is now, the caller gets the object.
ReturnStore ==
    /\ \E s \in Sessions :
          /\ s_pc[s] = "fitted"
          /\ store_cache' = [store_cache EXCEPT ![s_ticker[s]] = vectorizer]
          /\ s_index' = [s_index EXCEPT ![s] = SharedObject]
          /\ s_pc' = [s_pc EXCEPT ![s] = "holding"]
    /\ UNCHANGED <<vectorizer, s_ticker, s_used>>
    /\ UNCHANGED <<avars, qvars, nvars, pvars, dvars, fvars, rvars, uvars>>

\* query_simple_rag transforms the query and the documents with the
\* vectorizer the session holds.
QueryIndex ==
    /\ \E s \in Sessions :
          /\ s_pc[s] = "holding"
          /\ s_used' = [s_used EXCEPT ![s] = Vocabulary(s_index[s])]
          /\ s_pc' = [s_pc EXCEPT ![s] = "queried"]
    /\ UNCHANGED <<vectorizer, store_cache, s_ticker, s_index>>
    /\ UNCHANGED <<avars, qvars, nvars, pvars, dvars, fvars, rvars, uvars>>

\* The script run ends; the session can analyse another ticker.
EndRun ==
    /\ \E s \in Sessions :
          /\ s_pc[s] = "queried"
          /\ s_index' = [s_index EXCEPT ![s] = NoIndex]
          /\ s_used' = [s_used EXCEPT ![s] = Unfitted]
          /\ s_pc' = [s_pc EXCEPT ![s] = "idle"]
    /\ UNCHANGED <<vectorizer, store_cache, s_ticker>>
    /\ UNCHANGED <<avars, qvars, nvars, pvars, dvars, fvars, rvars, uvars>>

\* ttl=3600: an entry expires.
Expire ==
    /\ \E t \in Tickers :
          /\ store_cache[t] # NoEntry
          /\ store_cache' = [store_cache EXCEPT ![t] = NoEntry]
    /\ UNCHANGED <<vectorizer, s_pc, s_ticker, s_index, s_used>>
    /\ UNCHANGED <<avars, qvars, nvars, pvars, dvars, fvars, rvars, uvars>>

\* ------------------------------------------------------------------------
\* format_ratios_for_prompt / format_sec_filings_for_prompt
\* ------------------------------------------------------------------------
\* A text of several lines is the sequence of its lines ("\n".join), a line
\* the sequence of the pieces its f-string puts together.
NA == "N/A"
Missing == "<missing>"

NoRatioBlock == << <<"No ratio data available">> >>
NoFilingBlock == << <<"No recent SEC filings available">> >>

\* f"- {key}: {value}"
RatioLine(key, value) == <<"- ", key, ": ", value>>

\* filing.get(key, 'N/A')
GetOrNA(v) == IF v = Missing THEN NA ELSE v

\* f"- {form} filed on {date}"
FilingLine(filing) ==
    <<"- ", GetOrNA(filing.form), " filed on ", GetOrNA(filing.date)>>

\* Variant: every ratio is listed, "N/A" included.
FormatRatiosForPrompt_ListsAll(ratios) ==
    IF ratios = <<>> THEN NoRatioBlock
    ELSE [k \in 1..Len(ratios) |-> RatioLine(ratios[k].key, ratios[k].value)]

FormatRatiosForPrompt(ratios) ==
    IF ratios = <<>> THEN NoRatioBlock
    ELSE LET kept == SelectSeq(ratios, LAMBDA r : r.value # NA)
             formatted == [k \in 1..Len(kept) |->
                              RatioLine(kept[k].key, kept[k].value)]
         IN IF formatted # <<>> THEN formatted ELSE NoRatioBlock

FormatSecFilingsForPrompt(sec_filings) ==
    IF sec_filings = <<>> THEN NoFilingBlock
    ELSE LET shown == Prefix(sec_filings, FilingsShown)
             formatted == [k \in 1..Len(shown) |-> FilingLine(shown[k])]
         IN IF formatted # <<>> THEN formatted ELSE NoFilingBlock

\* The ratios compute_ratios can produce and the filings of a company.
RatioKeys == {"P/E Ratio", "Price/Sales", "Debt/Equity"}
RatioValues == {NA, "15.20"}
Filings == {[form |-> "10-K", date |-> "2024-11-01"],
            [form |-> "10-Q", date |-> "2024-08-02"],
            [form |-> Missing, date |-> Missing]}

\* A dictionary in insertion order: no key twice.
IsDict(s) == \A i, j \in 1..Len(s) : i # j => s[i].key # s[j].key

InitFormat ==
    /\ f_pc = "ready"
    /\ \E ratios \in SeqsUpTo([key : RatioKeys, value : RatioValues], MaxRatios) :
          IsDict(ratios) /\ f_ratios = ratios
    /\ f_filings \in SeqsUpTo(Filings, MaxFilings)
    /\ f_ratio_block = <<>>
    /\ f_filing_block = <<>>

\* {format_ratios_for_prompt(ratios)} in the prompt's f-string
FormatRatios ==
    /\ f_pc = "ready"
    /\ f_ratio_block' = FormatRatiosForPrompt(f_ratios)
    /\ f_pc' = "ratios_done"
    /\ UNCHANGED <<f_ratios, f_filings, f_filing_block>>
    /\ UNCHANGED <<avars, qvars, nvars, pvars, dvars, ivars, rvars, uvars>>

\* {format_sec_filings_for_prompt(sec_filings)} in the prompt's f-string
FormatSecFilings ==
    /\ f_pc = "ratios_done"
    /\ f_filing_block' = FormatSecFilingsForPrompt(f_filings)
    /\ f_pc' = "done"
    /\ UNCHANGED <<f_ratios, f_filings, f_ratio_block>>
    /\ UNCHANGED <<avars, qvars, nvars, pvars, dvars, ivars, rvars, uvars>>

\* ------------------------------------------------------------------------
\* fetch_with_retry
\* ------------------------------------------------------------------------
\* What the server can do with one request: answer with a status (a 200
\* with or without a JSON body, a 404, a 429, another status) or not answer
\* (timeout, connection error).
Answers == {"200", "200 invalid body", "404", "429", "500", "timeout",
            "connection"}

StatusCode(answer) ==
    CASE answer \in {"200", "200 invalid body"} -> 200
      [] answer = "404" -> 404
      [] answer = "429" -> 429
      [] answer = "500" -> 500
      [] OTHER -> 0

NoError == [code |-> "none", message |-> "none"]
NoResponse == [success |-> FALSE, code |-> "none", message |-> "none"]

\* last_error after an attempt that neither returned nor was rate limited
ErrorOf(answer) ==
    CASE answer = "500" -> [code |-> "500", message |-> "HTTP 500"]
      [] answer = "timeout" ->
            [code |-> "TIMEOUT", message |-> "Request timed out"]
      [] answer = "connection" ->
            [code |-> "CONNECTION", message |-> "Connection failed"]
      [] OTHER -> [code |-> "REQUEST_ERROR", message |-> "invalid body"]

InitFetch ==
    /\ r_pc = "loop"
    /\ r_retries \in 1..MaxRetries
    /\ r_responses \in [1..r_retries -> Answers]
    /\ r_attempt = 1
    /\ r_requests = 0
    /\ r_last_error = NoError
    /\ r_result = NoResponse

\* One iteration of `for attempt in range(1, retries + 1)`.
Attempt ==
    /\ r_pc = "loop"
    /\ r_attempt <= r_retries
    /\ r_requests' = r_requests + 1
    /\ LET answer == r_responses[r_attempt] IN
       CASE answer = "200" ->
              /\ r_result' = [success |-> TRUE, data |-> "json"]
              /\ r_pc' = "returned"
              /\ UNCHANGED <<r_attempt, r_last_error>>
         [] answer = "404" ->
              /\ r_result' = [success |-> FALSE, code |-> "404",
                              message |-> "Not Found"]
              /\ r_pc' = "returned"
              /\ UNCHANGED <<r_attempt, r_last_error>>
         [] answer = "429" ->
              /\ r_attempt' = r_attempt + 1
              /\ UNCHANGED <<r_pc, r_last_error, r_result>>
         [] OTHER ->
              /\ r_last_error' = ErrorOf(answer)
              /\ r_attempt' = r_attempt + 1
              /\ UNCHANGED <<r_pc, r_result>>
    /\ UNCHANGED <<r_retries, r_responses>>
    /\ UNCHANGED <<avars, qvars, nvars, pvars, dvars, ivars, fvars, uvars>>

\* return {"success": False, **last_error}: unpacking None raises TypeError.
ReturnFailure ==
    /\ r_pc = "loop"
    /\ r_attempt > r_retries
    /\ IF r_last_error = NoError
       THEN r_pc' = "raised" /\ UNCHANGED r_result
       ELSE /\ r_result' = [success |-> FALSE, code |-> r_last_error.code,
                            message |-> r_last_error.message]
            /\ r_pc' = "returned"
    /\ UNCHANGED <<r_retries, r_responses, r_attempt, r_requests, r_last_error>>
    /\ UNCHANGED <<avars, qvars, nvars, pvars, dvars, ivars, fvars, uvars>>

\* ------------------------------------------------------------------------
\* app.py: one script run per user action
\* ------------------------------------------------------------------------
AppTickers == {"AAPL", "GOOGL", "MSFT"}
NoTicker == "None"

\* st.session_state.finnhub_data: None, or what get_finnhub_company_data
\* returned for a ticker (an empty dictionary when nothing was found).
NoData == [ticker |-> NoTicker, found |-> FALSE]
CompanyData(ticker, found) == [ticker |-> ticker, found |-> found]

\* st.session_state.analysis_data: None, or the result of
\* get_enhanced_ai_analysis for context_data["ticker"].
NoAnalysis == [ticker |-> NoTicker, method |-> "none"]
Analysis(ticker, method) == [ticker |-> ticker, method |-> method]

\* `if st.session_state.finnhub_data:`
HasData(data) == data # NoData /\ data.found

BlankScreen == [view |-> "none", company |-> NoTicker, analysis |-> NoTicker]

\* The welcome screen: display_company_info(finnhub_data) and, when set,
\* display_ai_insights(analysis_data)
WelcomeScreen(data, analysis) ==
    [view |-> "welcome",
     company |-> IF HasData(data) THEN data.ticker ELSE NoTicker,
     analysis |-> IF HasData(data) /\ analysis # NoAnalysis
                  THEN analysis.ticker ELSE NoTicker]

ReportsScreen(data) ==
    [view |-> "reports",
     company |-> IF HasData(data) THEN data.ticker ELSE NoTicker,
     analysis |-> NoTicker]

AnalysisScreen(analysis) ==
    [view |-> "analysis", company |-> NoTicker, analysis |-> analysis.ticker]

\* The analysis workflow's `if not finnhub_data or ticker_symbol !=
\* current_ticker` fetch: the session's data and symbol after it.
Refetched(data, symbol, current_ticker, found) ==
    IF ~HasData(data) \/ symbol # current_ticker
    THEN [data |-> CompanyData(current_ticker, found), symbol |-> current_ticker]
    ELSE [data |-> data, symbol |-> symbol]

InitApp ==
    /\ u_ticker \in AppTickers
    /\ u_finnhub_data = NoData
    /\ u_ticker_symbol = NoTicker
    /\ u_analysis_data = NoAnalysis
    /\ u_show_ai_analysis = FALSE
    /\ u_screen = WelcomeScreen(NoData, NoAnalysis)

\* The user changes a sidebar control, the ticker or an option: a script
\* run without any button.
SelectTicker ==
    /\ \E t \in AppTickers, found \in BOOLEAN :
          /\ u_ticker' = t
          /\ IF u_show_ai_analysis
             THEN LET f == Refetched(u_finnhub_data, u_ticker_symbol, t, found)
                  IN /\ u_finnhub_data' = f.data
                     /\ u_ticker_symbol' = f.symbol
                     /\ u_screen' = BlankScreen
             ELSE /\ UNCHANGED <<u_finnhub_data, u_ticker_symbol>>
                  /\ u_screen' = WelcomeScreen(u_finnhub_data, u_analysis_data)
    /\ UNCHANGED <<u_analysis_data, u_show_ai_analysis>>
    /\ UNCHANGED <<avars, qvars, nvars, pvars, dvars, ivars, fvars, rvars>>

\* "View Reports": fetch and store the company data of the selected ticker
\* (raises tells whether a fetch raised, which the except branch reports);
\* with the analysis view open its workflow runs after the reports.
ViewReports ==
    /\ \E found, raises, again \in BOOLEAN :
          LET data == IF raises THEN u_finnhub_data
                      ELSE CompanyData(u_ticker, found)
              symbol == IF raises THEN u_ticker_symbol ELSE u_ticker
              f == IF u_show_ai_analysis
                   THEN Refetched(data, symbol, u_ticker, again)
                   ELSE [data |-> data, symbol |-> symbol]
          IN /\ u_finnhub_data' = f.data
             /\ u_ticker_symbol' = f.symbol
             /\ u_screen' = IF raises THEN BlankScreen ELSE ReportsScreen(data)
    /\ UNCHANGED <<u_ticker, u_analysis_data, u_show_ai_analysis>>
    /\ UNCHANGED <<avars, qvars, nvars, pvars, dvars, ivars, fvars, rvars>>

\* "AI RAG Analysis": the flag is set and the workflow runs up to the method
\* buttons.
OpenAiAnalysis ==
    /\ ~u_show_ai_analysis
    /\ u_show_ai_analysis' = TRUE
    /\ \E found \in BOOLEAN :
          LET f == Refetched(u_finnhub_data, u_ticker_symbol, u_ticker, found)
          IN /\ u_finnhub_data' = f.data
             /\ u_ticker_symbol' = f.symbol
    /\ u_screen' = BlankScreen
    /\ UNCHANGED <<u_ticker, u_analysis_data>>
    /\ UNCHANGED <<avars, qvars, nvars, pvars, dvars, ivars, fvars, rvars>>

\* "RAG-Enhanced Analysis" or "Standard AI Analysis": the analysis of the
\* session's company is stored and shown; raises tells whether preparing the
\* context raised, which the workflow's except branch reports.
RunAnalysis ==
    /\ u_show_ai_analysis
    /\ \E method \in {"RAG", "Standard"}, raises, found \in BOOLEAN :
          LET f == Refetched(u_finnhub_data, u_ticker_symbol, u_ticker, found)
          IN /\ u_finnhub_data' = f.data
             /\ u_ticker_symbol' = f.symbol
             /\ IF raises
                THEN /\ UNCHANGED u_analysis_data
                     /\ u_screen' = BlankScreen
                ELSE /\ u_analysis_data' = Analysis(f.symbol, method)
                     /\ u_screen' = AnalysisScreen(Analysis(f.symbol, method))
    /\ UNCHANGED <<u_ticker, u_show_ai_analysis>>
    /\ UNCHANGED <<avars, qvars, nvars, pvars, dvars, ivars, fvars, rvars>>

\* "Back to Home": the flag is deleted and st.rerun() runs the script
\* again, which shows the welcome screen.
BackToHome ==
    /\ u_show_ai_analysis
    /\ u_show_ai_analysis' = FALSE
    /\ u_screen' = WelcomeScreen(u_finnhub_data, u_analysis_data)
    /\ UNCHANGED <<u_ticker, u_finnhub_data, u_ticker_symbol, u_analysis_data>>
    /\ UNCHANGED <<avars, qvars, nvars, pvars, dvars, ivars, fvars, rvars>>

\* ------------------------------------------------------------------------
\* Specifications
\* ------------------------------------------------------------------------
IdleAnalysis ==
    /\ pc = "idle"
    /\ force_standard = FALSE
    /\ has_historical_data = FALSE
    /\ documents = <<>>
    /\ similarities = <<>>
    /\ model_cached = FALSE
    /\ rag_built = FALSE
    /\ rag_queried = FALSE
    /\ build_error = NoValue
    /\ rag_results = EmptyRag
    /\ model_calls = <<>>
    /\ responses = <<>>
    /\ exc_seen = {}
    /\ propagated = FALSE
    /\ result = NoResult

IdleQuery ==
    /\ q_pc = "idle"
    /\ q_documents = <<>>
    /\ q_similarities = <<>>
    /\ q_top_k = TopK
    /\ q_store = NoStore
    /\ q_result = EmptyRag

IdleNorm ==
    /\ n_pc = "idle"
    /\ finnhub = [success |-> FALSE, data |-> <<>>]
    /\ yahoo = <<>>
    /\ attempt = 0
    /\ financial_timeline = EmptyFinancial
    /\ ratios_timeline = EmptyRatios
    /\ n_error = NoValue

IdlePredict ==
    /\ p_pc = "idle"
    /\ p_ratios = EmptyRatios
    /\ p_insights = <<>>
    /\ p_result = <<>>

IdleDocs ==
    /\ d_pc = "idle"
    /\ d_financial = EmptyFinancial
    /\ d_ratios = EmptyRatios
    /\ d_metrics = NoMetrics
    /\ d_raised = FALSE
    /\ d_documents = <<>>
    /\ d_metadata = <<>>

\* No session has started.
IdleIndex == InitIndex

IdleFormat ==
    /\ f_pc = "idle"
    /\ f_ratios = <<>>
    /\ f_filings = <<>>
    /\ f_ratio_block = <<>>
    /\ f_filing_block = <<>>

IdleRetry ==
    /\ r_pc = "idle"
    /\ r_retries = 0
    /\ r_responses = <<>>
    /\ r_attempt = 0
    /\ r_requests = 0
    /\ r_last_error = NoError
    /\ r_result = NoResponse

IdleApp ==
    /\ u_ticker = NoTicker
    /\ u_finnhub_data = NoData
    /\ u_ticker_symbol = NoTicker
    /\ u_analysis_data = NoAnalysis
    /\ u_show_ai_analysis = FALSE
    /\ u_screen = BlankScreen

Init ==
    InitAnalysis /\ IdleQuery /\ IdleNorm /\ IdlePredict /\ IdleDocs
    /\ IdleIndex /\ IdleFormat /\ IdleRetry /\ IdleApp
Next ==
    \/ CheckForceStandard
    \/ ForcedStandard
    \/ InitModel
    \/ CheckHistoricalData
    \/ CreateSimpleRagStore
    \/ QueryRag
    \/ GenerateEnhanced
    \/ StandardFallback
Spec == Init /\ [][Next]_vars

InitRag ==
    IdleAnalysis /\ InitQuery /\ IdleNorm /\ IdlePredict /\ IdleDocs
    /\ IdleIndex /\ IdleFormat /\ IdleRetry /\ IdleApp
NextRag ==
    \/ BuildStore
    \/ Query
SpecRag == InitRag /\ [][NextRag]_vars

InitNormalizer ==
    IdleAnalysis /\ IdleQuery /\ InitNorm /\ IdlePredict /\ IdleDocs
    /\ IdleIndex /\ IdleFormat /\ IdleRetry /\ IdleApp
NextNormalizer ==
    \/ FetchFinnhub
    \/ YahooAttempt
    \/ ReturnTimelines
SpecNorm == InitNormalizer /\ [][NextNormalizer]_vars

InitEstimator ==
    IdleAnalysis /\ IdleQuery /\ IdleNorm /\ InitPredict /\ IdleDocs
    /\ IdleIndex /\ IdleFormat /\ IdleRetry /\ IdleApp
NextPredict ==
    \/ EstimateRevenue
    \/ EstimateMargin
SpecPredict == InitEstimator /\ [][NextPredict]_vars

InitSynthesizer ==
    IdleAnalysis /\ IdleQuery /\ IdleNorm /\ IdlePredict /\ InitDocs
    /\ IdleIndex /\ IdleFormat /\ IdleRetry /\ IdleApp
NextDocs == PrepareDocuments
SpecDocs == InitSynthesizer /\ [][NextDocs]_vars

InitSessions ==
    IdleAnalysis /\ IdleQuery /\ IdleNorm /\ IdlePredict /\ IdleDocs
    /\ InitIndex /\ IdleFormat /\ IdleRetry /\ IdleApp
NextIndex ==
    \/ CacheHit
    \/ CacheMiss
    \/ FitTransform
    \/ ReturnStore
    \/ QueryIndex
    \/ EndRun
    \/ Expire
SpecIndex == InitSessions /\ [][NextIndex]_vars

InitPrompt ==
    IdleAnalysis /\ IdleQuery /\ IdleNorm /\ IdlePredict /\ IdleDocs
    /\ IdleIndex /\ InitFormat /\ IdleRetry /\ IdleApp
NextPrompt ==
    \/ FormatRatios
    \/ FormatSecFilings
SpecPrompt == InitPrompt /\ [][NextPrompt]_vars

InitRetry ==
    IdleAnalysis /\ IdleQuery /\ IdleNorm /\ IdlePredict /\ IdleDocs
    /\ IdleIndex /\ IdleFormat /\ InitFetch /\ IdleApp
NextFetch ==
    \/ Attempt
    \/ ReturnFailure
SpecFetch == InitRetry /\ [][NextFetch]_vars

InitSession ==
    IdleAnalysis /\ IdleQuery /\ IdleNorm /\ IdlePredict /\ IdleDocs
    /\ IdleIndex /\ IdleFormat /\ IdleRetry /\ InitApp
NextApp ==
    \/ SelectTicker
    \/ ViewReports
    \/ OpenAiAnalysis
    \/ RunAnalysis
    \/ BackToHome
SpecApp == InitSession /\ [][NextApp]_vars

\* ------------------------------------------------------------------------
\* Properties of get_enhanced_ai_analysis (Spec)
\* ------------------------------------------------------------------------
Done == pc = "done"

LastResponse == responses[Len(responses)]

\* C1: with force_standard set the retrieval index is never built nor
\* queried, and the call returns method "Standard AI" with context_sources 0
\* whatever the model service does.
C1_ForcedStandard ==
    force_standard =>
        /\ ~rag_built
        /\ ~rag_queried
        /\ Done => /\ ~propagated
                   /\ result.method = "Standard AI"
                   /\ result.context_sources = 0

\* A forced call that has returned although the model service raised.
C1_Witness ==
    /\ force_standard
    /\ Done
    /\ "standard_invoke" \in exc_seen

\* C2: a returned result has method RAG-Enhanced, Standard AI or Error and a
\* natural context_sources, which is 0 for Standard AI and Error and, for
\* RAG-Enhanced, the number of retrieved documents (between 1 and top_k).
C2_ResultShape ==
    Done /\ ~propagated =>
        /\ result.method \in {"RAG-Enhanced", "Standard AI", "Error"}
        /\ result.context_sources \in Nat
        /\ result.method \in {"Standard AI", "Error"}
              => result.context_sources = 0
        /\ result.method = "RAG-Enhanced"
              => /\ result.context_sources = Len(rag_results.documents)
                 /\ result.context_sources >= 1
                 /\ result.context_sources <= TopK

\* A RAG-Enhanced result whose documents list is longer than its scores list.
C2_Witness ==
    /\ Done
    /\ result.method = "RAG-Enhanced"
    /\ Len(rag_results.scores) < Len(rag_results.documents)

\* C3 (as stated): an exception during model invocation or index build, on
\* any path, ends in a returned result of method Error with a readable
\* message, and never leaves the orchestrator.
C3_ExceptionsBecomeError ==
    Done /\ exc_seen \cap {"init", "standard_init", "standard_invoke",
                           "rag_invoke", "build"} # {}
        => /\ ~propagated
           /\ result.method = "Error"
           /\ result.analysis.kind \in {"error", "enhanced_error"}

\* C4: without force_standard and without historical financial_data the index
\* is neither built nor queried, the result is never RAG-Enhanced, and it is
\* the standard result unless the model could not be constructed.
C4_NoHistoryNoRag ==
    ~force_standard /\ ~has_historical_data /\ pc # "idle" =>
        /\ ~rag_built
        /\ ~rag_queried
        /\ Done => /\ result.method # "RAG-Enhanced"
                   /\ "init" \notin exc_seen => result.method = "Standard AI"

\* A call without historical data that returned the standard result.
C4_Witness ==
    /\ ~force_standard
    /\ ~has_historical_data
    /\ Done
    /\ result.method = "Standard AI"
    /\ model_calls = <<StandardCall>>

\* The RAG path was entered and given up before the model was asked.
RagAbandoned ==
    /\ has_historical_data
    /\ rag_built
    /\ \/ build_error # NoValue
       \/ documents = <<>>
       \/ rag_queried /\ rag_results.documents = <<>>

\* C5: when the build reports an error, the corpus is empty or retrieval
\* yields no document, the standard prompt is still sent to the model and
\* the result is Standard AI with context_sources 0.
C5_RagAbandonedFallsBack ==
    Done /\ RagAbandoned =>
        /\ model_calls = <<StandardCall>>
        /\ result.method = "Standard AI"
        /\ result.context_sources = 0

\* Retrieval over a non-empty corpus found nothing and the call returned.
C5_Witness ==
    /\ Done
    /\ documents # <<>>
    /\ rag_queried
    /\ rag_results.documents = <<>>
    /\ "query" \notin exc_seen
    /\ result.method = "Standard AI"

\* C6 (as stated): a malformed model response (empty, HTML fragment,
\* corrupted placeholder, shorter than 50 characters) is never returned as a
\* Standard AI or RAG-Enhanced result, and when the last response received
\* is malformed the result is an Error.
C6_MalformedRejected ==
    Done /\ responses # <<>> =>
        /\ result.method \in {"Standard AI", "RAG-Enhanced"}
              /\ result.analysis.kind = "model"
              => ~Malformed(result.analysis)
        /\ LastResponse.kind = "model" /\ Malformed(LastResponse)
              => result.method = "Error"

\* ------------------------------------------------------------------------
\* Properties of query_simple_rag (SpecRag)
\* ------------------------------------------------------------------------
\* C7 (as stated): documents, metadatas and scores have equal length.
C7_ParallelLists ==
    q_pc \in {"returned", "failed"} =>
        /\ Len(q_result.documents) = Len(q_result.metadatas)
        /\ Len(q_result.metadatas) = Len(q_result.scores)

\* Document i ranks before document j: higher score, or equal score and
\* earlier insertion.
RanksBefore(sims, i, j) ==
    \/ sims[i] > sims[j]
    \/ sims[i] = sims[j] /\ i < j

\* The indices above the threshold, best first, ties by insertion order.
RECURSIVE Ranked(_, _)
Ranked(sims, S) ==
    IF S = {} THEN <<>>
    ELSE LET best == CHOOSE i \in S : \A j \in S \ {i} : RanksBefore(sims, i, j)
         IN <<best>> \o Ranked(sims, S \ {best})

\* C8 (as stated): the result lists at most top_k documents, the top_k
\* highest-scoring ones above the threshold, in descending score order, equal
\* scores in corpus insertion order.
C8_TopKInsertionOrder ==
    q_pc = "returned" =>
        q_result.documents =
            Prefix(Ranked(q_similarities,
                          {i \in 1..Len(q_documents) :
                              q_similarities[i] > DocThreshold}),
                   q_top_k)

\* ------------------------------------------------------------------------
\* Properties of get_multi_year_financial_data (SpecNorm)
\* ------------------------------------------------------------------------
Returned == n_pc = "returned"

StrictlyAscending(s) == \A i \in 1..(Len(s) - 1) : s[i] < s[i + 1]

\* C9 (as stated): the dates of every metric of a returned timeline are
\* strictly ascending.
C9_DatesAscending ==
    Returned =>
        /\ StrictlyAscending(financial_timeline.revenue.dates)
        /\ StrictlyAscending(financial_timeline.net_income.dates)

\* C10 (as stated): every returned timeline, the derived ratio timelines
\* included, has as many dates as values.
C10_EqualLengths ==
    Returned =>
        /\ Len(financial_timeline.revenue.dates)
              = Len(financial_timeline.revenue.values)
        /\ Len(financial_timeline.net_income.dates)
              = Len(financial_timeline.net_income.values)
        /\ Len(ratios_timeline.revenue_growth.dates)
              = Len(ratios_timeline.revenue_growth.values)
        /\ Len(ratios_timeline.profit_margin.dates)
              = Len(ratios_timeline.profit_margin.values)

\* C18 (as stated): every generate_content call the orchestrator makes, on
\* the RAG path as on the standard path, carries the generation
\* configuration (temperature, max_output_tokens).
C18_EveryCallConfigured ==
    \A k \in 1..Len(model_calls) : model_calls[k].config

\* The periods i >= 2 of a revenue timeline whose previous value is not zero,
\* each with its date and the two values its growth rate is derived from.
ExpectedGrowth(rev) ==
    LET idx == SelectSeq([i \in 1..(Len(rev.values) - 1) |-> i + 1],
                         LAMBDA i : rev.values[i - 1] # 0)
    IN [k \in 1..Len(idx) |->
           [date |-> rev.dates[idx[k]],
            prev |-> rev.values[idx[k] - 1],
            curr |-> rev.values[idx[k]]]]

\* The fraction f is (curr - prev) / prev * 100.
IsGrowthOf(f, prev, curr) == f.num * prev = (curr - prev) * 100 * f.den

\* C11 (as stated): for an ascending revenue timeline, revenue_growth holds
\* one entry per period i >= 2 whose previous revenue is not zero, with the
\* date of period i and the value (revenue[i] - revenue[i-1]) / revenue[i-1]
\* * 100; skipped periods do not shift the dates of the others.
C11_GrowthAligned ==
    Returned /\ financial_timeline.revenue.present
             /\ StrictlyAscending(financial_timeline.revenue.dates) =>
        LET g == ratios_timeline.revenue_growth
            e == ExpectedGrowth(financial_timeline.revenue)
        IN /\ g.present <=> e # <<>>
           /\ Len(g.dates) = Len(e)
           /\ Len(g.values) = Len(e)
           /\ \A k \in 1..Len(e) :
                 /\ g.dates[k] = e[k].date
                 /\ IsGrowthOf(g.values[k], e[k].prev, e[k].curr)

\* The dates found in both timelines whose revenue is not zero.
MarginDates(rev, inc) ==
    {d \in Range(rev.dates) \cap Range(inc.dates) :
        \E i \in 1..Len(rev.dates) : rev.dates[i] = d /\ rev.values[i] # 0}

\* The fraction f is income / revenue * 100.
IsMarginOf(f, income, revenue) ==
    f.den # 0 /\ f.num * revenue = income * 100 * f.den

\* C12: profit_margin holds exactly one entry for each date present in both
\* revenue and net_income whose revenue is not zero, with the value
\* net_income[date] / revenue[date] * 100, in ascending date order, and no
\* other entry.
C12_MarginEntries ==
    Returned =>
        LET rev == financial_timeline.revenue
            inc == financial_timeline.net_income
            m == ratios_timeline.profit_margin
        IN /\ Len(m.dates) = Len(m.values)
           /\ StrictlyAscending(m.dates)
           /\ Range(m.dates) = MarginDates(rev, inc)
           /\ m.present <=> MarginDates(rev, inc) # {}
           /\ \A k \in 1..Len(m.dates) :
                 \E i \in 1..Len(rev.dates), j \in 1..Len(inc.dates) :
                    /\ rev.dates[i] = m.dates[k]
                    /\ inc.dates[j] = m.dates[k]
                    /\ IsMarginOf(m.values[k], inc.values[j], rev.values[i])

\* Revenue {2021: 100, 2022: 200} and net income {2021: 10, 2022: 50} gave
\* the margins 10 and 25, and a third revenue period has no margin.
C12_Witness ==
    /\ Returned
    /\ ratios_timeline.profit_margin.dates = <<2021, 2022>>
    /\ IsMarginOf(ratios_timeline.profit_margin.values[1], 10, 100)
    /\ IsMarginOf(ratios_timeline.profit_margin.values[2], 25, 100)
    /\ 2023 \in Range(financial_timeline.revenue.dates)

\* The k largest elements of a set of years.
MostRecent(S, k) == {y \in S : Cardinality({z \in S : z > y}) < k}

\* The source the returned timelines were read from.
FromFinnhub == finnhub.success /\ Dated(finnhub.data) # <<>>

\* The periods the source in use offers for a row: the dated Finnhub reports,
\* or the Yahoo columns whose amount is not NaN.
Available(row) ==
    IF FromFinnhub
    THEN {finnhub.data[i].year : i \in {j \in 1..Len(finnhub.data) :
                                          finnhub.data[j].year # NoDate}}
    ELSE {yahoo[i].year : i \in {j \in 1..Len(yahoo) : yahoo[j][row] # Null}}

\* C20 (as stated): every metric timeline the normalizer returns, from the
\* primary or the fallback source, holds at most 6 periods, and they are the
\* 6 most recent periods the source offers.
C20_MostRecentSix ==
    Returned =>
        /\ financial_timeline.revenue.present =>
              /\ Len(financial_timeline.revenue.dates) <= MaxPeriods
              /\ Range(financial_timeline.revenue.dates)
                    = MostRecent(Available("totalRevenue"), MaxPeriods)
        /\ financial_timeline.net_income.present =>
              /\ Len(financial_timeline.net_income.dates) <= MaxPeriods
              /\ Range(financial_timeline.net_income.dates)
                    = MostRecent(Available("netIncome"), MaxPeriods)

\* C19: building the index from an empty corpus does not raise but returns
\* no vectorizer, empty document and metadata lists and an error string (the
\* no-corpus message unless something raised first), and querying an empty
\* document list returns empty documents, metadatas and scores and no error.
C19_EmptyCorpus ==
    q_documents = <<>> =>
        /\ q_pc \in {"built", "returned", "failed"} =>
              /\ ~q_store.vectorizer
              /\ q_store.documents = <<>>
              /\ q_store.metadata = <<>>
              /\ q_store.error \in {"No financial data available", "exception"}
        /\ q_pc \in {"returned", "failed"} =>
              /\ q_pc = "returned"
              /\ q_result.documents = <<>>
              /\ q_result.metadatas = <<>>
              /\ q_result.scores = <<>>
              /\ q_result.error = NoValue

\* An empty corpus was built with the no-corpus error and then queried.
C19_Witness ==
    /\ q_documents = <<>>
    /\ q_store.error = "No financial data available"
    /\ q_pc = "returned"

\* ------------------------------------------------------------------------
\* Properties of get_predictive_insights (SpecPredict)
\* ------------------------------------------------------------------------
\* The revenue step has run.
RevenueDone == p_pc \in {"revenue_done", "returned"}

IsRevenuePrediction(ins) ==
    "type" \in DOMAIN ins /\ ins.type = "revenue_prediction"
IsMarginStability(ins) ==
    "type" \in DOMAIN ins /\ ins.type = "margin_stability"

\* The revenue predictions among the insights gathered.
Predictions == SelectSeq(p_insights, IsRevenuePrediction)

\* At least 3 growth periods were given.
ThreeGrowthPeriods ==
    /\ p_ratios.revenue_growth.present
    /\ Len(p_ratios.revenue_growth.values) >= 3

\* The last three growth rates given, and the positions among them that
\* hold a number.
LastThree ==
    LET v == p_ratios.revenue_growth.values
    IN [k \in 1..3 |-> v[Len(v) - 3 + k]]
UsablePositions == {k \in 1..3 : LastThree[k].den # 0}

\* Magnitude of the last usable rate and of the usable rate before it.
LatestPosition == CHOOSE k \in UsablePositions : \A j \in UsablePositions : j <= k
PreviousPosition ==
    CHOOSE k \in UsablePositions \ {LatestPosition} :
        \A j \in UsablePositions \ {LatestPosition} : j <= k
Magnitude(k) == Frac(Abs(LastThree[k].num), LastThree[k].den)

\* x equals f * n / d
IsScaled(x, f, n, d) == x.num * f.den * d = f.num * n * x.den
\* x equals the whole number n
IsWhole(x, n) == x.num = n * x.den

\* The prediction took the latest > previous or the latest <= previous branch.
TwoUsable == ThreeGrowthPeriods /\ Cardinality(UsablePositions) >= 2
Increasing == FLt(Magnitude(PreviousPosition), Magnitude(LatestPosition))

\* C14 (as stated): in the latest > previous and the latest <= previous
\* branches the predicted_value lies within [1.0, 12.0].
C14_PredictionInRange ==
    RevenueDone /\ TwoUsable =>
        \A k \in 1..Len(Predictions) :
            /\ FLe(Whole(1), Predictions[k].predicted_value)
            /\ FLe(Predictions[k].predicted_value, Whole(12))

\* C14 (amended): in the latest > previous branch the predicted_value is
\* above 0 and at most 12.0; in the latest <= previous branch it is at least
\* 2.0, with no upper bound.
C14_PredictionBounds ==
    RevenueDone /\ TwoUsable =>
        /\ Len(Predictions) = 1
        /\ LET v == Predictions[1].predicted_value
           IN IF Increasing
              THEN FLt(Whole(0), v) /\ FLe(v, Whole(12))
              ELSE FLe(Whole(2), v)

\* A prediction of the latest <= previous branch above 12.0 was emitted.
C14_Witness ==
    /\ RevenueDone /\ TwoUsable /\ ~Increasing
    /\ Len(Predictions) = 1
    /\ FLt(Whole(12), Predictions[1].predicted_value)

\* A prediction of the latest > previous branch below 1.0 was emitted.
C14_BelowOne ==
    /\ RevenueDone /\ TwoUsable /\ Increasing
    /\ Len(Predictions) = 1
    /\ FLt(Predictions[1].predicted_value, Whole(1))

C15_OneUsable ==
    /\ RevenueDone /\ ThreeGrowthPeriods
    /\ Cardinality(UsablePositions) = 1
    /\ Len(Predictions) = 1 /\ Predictions[1].confidence = "low"

\* No usable rate: the default, with confidence low.
C15_NoneUsable ==
    /\ RevenueDone /\ ThreeGrowthPeriods
    /\ UsablePositions = {}
    /\ Len(Predictions) = 1 /\ IsWhole(Predictions[1].predicted_value, 5)

\* A well-formed PredictiveInsight record.
WellFormedInsight(ins) ==
    \/ /\ DOMAIN ins = {"type", "predicted_value", "confidence", "years"}
       /\ ins.type = "revenue_prediction"
       /\ ins.predicted_value.den > 0
       /\ ins.confidence \in {"medium", "low"}
    \/ /\ DOMAIN ins = {"type", "stability", "average_margin"}
       /\ ins.type = "margin_stability"
       /\ ins.stability \in {"highly stable", "moderately stable", "volatile"}

\* At most one revenue_prediction followed by at most one margin_stability.
InsightsInOrder(s) ==
    /\ Len(s) <= 2
    /\ \A k \in 1..Len(s) : WellFormedInsight(s[k])
    /\ Len(s) = 2 => IsRevenuePrediction(s[1]) /\ IsMarginStability(s[2])

\* Fewer than 3 periods of either ratio.
Insufficient ==
    /\ ~ThreeGrowthPeriods
    /\ ~(p_ratios.profit_margin.present
         /\ Len(p_ratios.profit_margin.values) >= 3)

\* Some given ratio value is null.
Unusable ==
    \/ NullRate \in Range(p_ratios.revenue_growth.values)
    \/ NullRate \in Range(p_ratios.profit_margin.values)

DocTypes == {d_metadata[k].type : k \in 1..Len(d_metadata)}

\* C13: the synthesizer never raises for missing or zero-valued data: for
\* every well-formed timeline, zero revenues and net incomes included, it
\* returns a corpus that merely lacks the documents of an absent metric
\* family.
C13_NeverRaises ==
    d_pc = "done" =>
        /\ ~d_raised
        /\ Len(d_documents) = Len(d_metadata)
        /\ d_financial.revenue.present <=> "revenue" \in DocTypes
        /\ d_financial.net_income.present <=> "net_income" \in DocTypes
        /\ d_ratios.revenue_growth.present <=> "revenue_growth" \in DocTypes
        /\ d_ratios.profit_margin.present <=> "profit_margin" \in DocTypes

\* Timelines without a zero revenue before the last period.
NoZeroPrevious ==
    \A i \in 1..(Len(d_financial.revenue.values) - 1) :
        d_financial.revenue.values[i] # 0

\* Without a zero revenue before the last period the synthesizer returns the
\* corpus as C13 describes it.
C13_RaisesOnlyOnZeroRevenue ==
    d_pc = "done" /\ NoZeroPrevious => C13_NeverRaises

\* ------------------------------------------------------------------------
\* Properties of the cached retrieval index (SpecIndex)
\* ------------------------------------------------------------------------
\* C17: an index returned by a build is never mutated afterwards: whatever
\* the other sessions build, the vectorizer a session holds keeps the
\* vocabulary of the corpus it was built for, and a query ranks that corpus
\* with that vocabulary.
C17_IndexNeverMutated ==
    \A s \in Sessions :
        /\ s_pc[s] \in {"holding", "queried"} =>
              Vocabulary(s_index[s]) = s_ticker[s]
        /\ s_pc[s] = "queried" => s_used[s] = s_ticker[s]

\* ------------------------------------------------------------------------
\* C21
\* ------------------------------------------------------------------------
\* The fallback frame holds no amount at all.
YahooYieldsNothing ==
    \A i \in 1..Len(yahoo) :
        yahoo[i].totalRevenue = Null /\ yahoo[i].netIncome = Null

\* No source offered a usable period: the primary source had no dated
\* report, and every fallback attempt raised or the frame held nothing.
NoUsablePeriods ==
    /\ ~FromFinnhub
    /\ attempt = YahooAttempts \/ YahooYieldsNothing

\* A timeline dictionary without a single period.
NoPeriods(ft) == ft.revenue.dates = <<>> /\ ft.net_income.dates = <<>>

\* An analysis of the snapshot ends on the standard path: the orchestrator
\* sees no history, or the corpus built from it is empty and the retrieval
\* path is abandoned.
TakesStandardPath(ft, rt) ==
    \/ ~HasHistoricalData(ft)
    \/ \A cm \in CurrentMetrics :
          LET r == PrepareFinancialDocuments(ft, rt, cm)
          IN StoreError(r.documents, r.raised) # NoValue

\* The dated reports the primary source's window holds.
DatedReports == Dated(finnhub.data)

C21_NullRecordedAsZero ==
    /\ Returned /\ FromFinnhub
    /\ \E i \in 1..Len(DatedReports) : DatedReports[i].totalRevenue = Null
    /\ 0 \in Range(financial_timeline.revenue.values)

\* The fallback frame held only NaN amounts: both metrics are present with
\* no period.
C21_EmptyFrameRows ==
    /\ Returned /\ ~FromFinnhub /\ attempt < YahooAttempts
    /\ yahoo # <<>> /\ YahooYieldsNothing
    /\ HasHistoricalData(financial_timeline)

\* ------------------------------------------------------------------------
\* C22 .. C25
\* ------------------------------------------------------------------------
Synthesized == d_pc = "done"

\* Positions of the returned documents of one type.
DocsOfType(type) == {i \in 1..Len(d_documents) : d_documents[i].type = type}

\* C22 (as stated): a timeline with N revenue and N net-income periods
\* yields exactly N revenue and N net_income documents, at least 2N
\* documents in all, as many metadata entries as documents, and metadata i
\* describes document i.
C22_CorpusSize ==
    Synthesized /\ d_financial.revenue.present
                /\ d_financial.net_income.present =>
        LET N == Len(d_financial.revenue.dates)
        IN /\ Cardinality(DocsOfType("revenue")) = N
           /\ Cardinality(DocsOfType("net_income")) = N
           /\ Len(d_documents) >= 2 * N
           /\ Len(d_documents) = Len(d_metadata)
           /\ \A i \in 1..Len(d_documents) :
                 /\ i <= Len(d_metadata)
                 /\ d_metadata[i].type = d_documents[i].type
                 /\ d_metadata[i].year = d_documents[i].year
                 /\ d_metadata[i].period = d_documents[i].period

\* Without a zero revenue before the last period the corpus is as C22
\* describes it.
C22_HoldsWithoutZeroRevenue == NoZeroPrevious => C22_CorpusSize

\* The label the thresholds give a growth rate and a margin.
ExpectedGrowthLabel(g) ==
    IF g.num > 10 * g.den THEN "strong"
    ELSE IF g.num > 5 * g.den THEN "moderate"
    ELSE IF g.num > 0 THEN "modest"
    ELSE "negative"
ExpectedMarginLabel(m) ==
    IF m.num > 20 * m.den THEN "excellent"
    ELSE IF m.num > 15 * m.den THEN "strong"
    ELSE IF m.num > 10 * m.den THEN "healthy"
    ELSE "concerning"

\* Exactly one document of the type names the year.
OneDocumentFor(type, year) ==
    Cardinality({i \in DocsOfType(type) : d_documents[i].year = year}) = 1

\* C23 (as stated): every growth document carries the label its rate
\* falls under (strong > 10, moderate > 5, modest > 0, else negative), every
\* margin document the label of its margin (excellent > 20, strong > 15,
\* healthy > 10, else concerning), and every period of a ratio timeline has
\* one such document.
C23_RatioLabels ==
    Synthesized =>
        /\ \A i \in DocsOfType("revenue_growth") :
              d_documents[i].label = ExpectedGrowthLabel(d_documents[i].value)
        /\ \A i \in DocsOfType("profit_margin") :
              d_documents[i].label = ExpectedMarginLabel(d_documents[i].value)
        /\ \A k \in 1..Len(d_ratios.revenue_growth.dates) :
              OneDocumentFor("revenue_growth", d_ratios.revenue_growth.dates[k])
        /\ \A k \in 1..Len(d_ratios.profit_margin.dates) :
              OneDocumentFor("profit_margin", d_ratios.profit_margin.dates[k])

\* Without a zero revenue before the last period the ratio documents are as
\* C23 describes them.
C23_HoldsWithoutZeroRevenue == NoZeroPrevious => C23_RatioLabels

\* Magnitudes of the last three growth rates of the ratio timeline.
GrowthMagnitude(k) ==
    LET v == d_ratios.revenue_growth.values
        g == v[Len(v) - 3 + k]
    IN Frac(Abs(g.num), g.den)

\* x equals the average of the three magnitudes
IsAverage(x) ==
    LET m == FMean([k \in 1..3 |-> Reduce(GrowthMagnitude(k))])
    IN x.num * m.den = m.num * x.den

\* C24 (as stated): with at least 3 growth rates the synthesizer emits
\* exactly one projection document: improving with min(recent*1.05, 15) when
\* recent > earlier*1.1, declining with max(recent*0.95, 1) when
\* recent < earlier*0.9, else stable with the average of the magnitudes.
C24_Projection ==
    Synthesized /\ Len(d_ratios.revenue_growth.values) >= 3 =>
        /\ Cardinality(DocsOfType("predictive_analysis")) = 1
        /\ \A i \in DocsOfType("predictive_analysis") :
              LET recent == GrowthMagnitude(3)
                  earlier == GrowthMagnitude(1)
                  label == d_documents[i].label
                  v == d_documents[i].value
              IN IF recent.num * earlier.den * 10 > earlier.num * 11 * recent.den
                 THEN /\ label = "improving"
                      /\ FLe(v, Whole(15))
                      /\ \/ IsScaled(v, recent, 105, 100)
                         \/ IsWhole(v, 15)
                            /\ recent.num * 105 >= 15 * 100 * recent.den
                 ELSE IF recent.num * earlier.den * 10 < earlier.num * 9 * recent.den
                 THEN /\ label = "declining"
                      /\ FLe(Whole(1), v)
                      /\ \/ IsScaled(v, recent, 95, 100)
                         \/ IsWhole(v, 1)
                            /\ recent.num * 95 <= 1 * 100 * recent.den
                 ELSE label = "stable" /\ IsAverage(v)

\* Without a zero revenue before the last period the projection is as C24
\* describes it.
C24_HoldsWithoutZeroRevenue == NoZeroPrevious => C24_Projection

\* Projections that were emitted: a capped improving one, a floored
\* declining one, a stable one.
C24_CappedImproving ==
    \E i \in DocsOfType("predictive_analysis") :
        d_documents[i].label = "improving" /\ IsWhole(d_documents[i].value, 15)
C24_FlooredDeclining ==
    \E i \in DocsOfType("predictive_analysis") :
        d_documents[i].label = "declining" /\ IsWhole(d_documents[i].value, 1)
C24_Stable ==
    \E i \in DocsOfType("predictive_analysis") : d_documents[i].label = "stable"

\* The label the thresholds give the ratio of two revenues: below 1.5,
\* below 2.0, or at least 2.0 (a minimum of 0 under a positive maximum is
\* above every threshold).
ExpectedStabilityLabel(max, min) ==
    IF 2 * max < 3 * min THEN "highly stable"
    ELSE IF max < 2 * min THEN "moderately stable"
    ELSE "volatile"

\* C25 (as stated): the stability document, whenever it is produced, labels
\* the ratio of the maximum to the minimum revenue: highly stable below 1.5,
\* moderately stable from 1.5 to below 2.0, volatile from 2.0, also when the
\* minimum revenue is 0.
C25_StabilityLabel ==
    Synthesized =>
        \A i \in DocsOfType("stability") :
            d_documents[i].label
              = ExpectedStabilityLabel(MaxOf(d_financial.revenue.values),
                                       MinOf(d_financial.revenue.values))

\* With a positive minimum revenue the stability label is as C25 describes.
C25_HoldsForPositiveMinimum ==
    (d_financial.revenue.present
       => \A k \in 1..Len(d_financial.revenue.values) :
             d_financial.revenue.values[k] > 0)
    => C25_StabilityLabel

\* ------------------------------------------------------------------------
\* C27
\* ------------------------------------------------------------------------
\* The retrieval returned documents, so the enhanced prompt is sent.
RagPathTaken ==
    ~force_standard /\ rag_queried /\ rag_results.documents # <<>>

\* The model construction failed before any invocation.
InitFailed == exc_seen \cap {"init", "standard_init"} # {}

\* C27: one call of the orchestrator invokes the model at most twice, and
\* at least once unless the construction of the model failed first: once
\* with the standard prompt when force_standard is set or the RAG path is
\* not taken, first with the RAG prompt when it is taken, a second time
\* (standard, after the RAG prompt) only when the RAG response was empty,
\* and a non-empty RAG response is returned without a standard invocation.
C27_ModelInvocations ==
    LET n == Len(model_calls) IN
    /\ n <= 2
    /\ Len(responses) = n
    /\ Done /\ n = 0 => InitFailed
    /\ Done /\ ~RagPathTaken => n <= 1 /\ Range(model_calls) \subseteq {StandardCall}
    /\ Done /\ RagPathTaken => n >= 1 /\ model_calls[1] = RagCall
    /\ n = 2 => /\ model_calls = <<RagCall, StandardCall>>
                /\ responses[1] \in ModelTexts
                /\ ~Truthy(responses[1])
    /\ Done /\ n >= 1 /\ model_calls[1] = RagCall /\ Truthy(responses[1]) =>
          /\ n = 1
          /\ result = EnhancedResult(responses[1], rag_results)

\* The standard prompt followed an empty answer to the RAG prompt.
C27_Witness ==
    Done /\ model_calls = <<RagCall, StandardCall>> /\ responses[1] = EmptyText

\* A non-empty answer to the RAG prompt was returned after one invocation.
C27_RagOnly ==
    Done /\ model_calls = <<RagCall>> /\ result.method = "RAG-Enhanced"

\* The call ended without any invocation of the model.
C27_NoInvocation == Done /\ model_calls = <<>>

\* ------------------------------------------------------------------------
\* C28
\* ------------------------------------------------------------------------
\* The shape of one result of query_simple_rag on a corpus with the given
\* similarities (document i is i, its metadata is i).
ResultShape(r, docs, sims, top_k) ==
    LET smaller == IF top_k < Len(docs) THEN top_k ELSE Len(docs) IN
    /\ Len(r.scores) = Len(r.metadatas)
    /\ Len(r.metadatas) <= Len(r.documents)
    /\ Len(r.documents) <= smaller
    /\ \A k \in 1..Len(r.scores) :
          /\ r.metadatas[k] = r.documents[k]
          /\ r.scores[k] = sims[r.documents[k]]
          /\ r.scores[k] > MetaThreshold
    /\ \A k \in 1..Len(r.documents) : sims[r.documents[k]] > DocThreshold

\* C28: every result of the retrieval query has
\* len(scores) = len(metadatas) <= len(documents) <= min(top_k, corpus
\* size), its metadatas and scores describe the first len(scores)
\* documents, every returned document has similarity above 0.05 and every
\* score is above 0.1; the orchestrator's context_sources is the length of
\* the documents list.
C28_ResultShape ==
    /\ q_pc \in {"returned", "failed"} =>
          ResultShape(q_result, q_documents, q_similarities, q_top_k)
    /\ rag_queried => ResultShape(rag_results, documents, similarities, TopK)
    /\ result.method = "RAG-Enhanced" =>
          result.context_sources = Len(rag_results.documents)

\* An enhanced result whose retrieval returned more documents than scores,
\* from a corpus larger than top_k.
C28_Witness ==
    /\ Done
    /\ result.method = "RAG-Enhanced"
    /\ Len(rag_results.scores) < Len(rag_results.documents)
    /\ Len(rag_results.scores) > 0
    /\ Len(documents) > TopK
    /\ result.context_sources = TopK

\* A query with top_k below the corpus size that returned top_k documents
\* and fewer scores.
C28_QueryWitness ==
    /\ q_pc = "returned"
    /\ q_top_k < Len(q_documents)
    /\ Len(q_result.documents) = q_top_k
    /\ Len(q_result.scores) \in 1..(q_top_k - 1)

\* ------------------------------------------------------------------------
\* Properties of the standard prompt's blocks (SpecPrompt)
\* ------------------------------------------------------------------------
\* Positions of the ratios that have a value.
Listed == {i \in 1..Len(f_ratios) : f_ratios[i].value # NA}

\* Positions of the lines of the ratio block that name the key.
LinesFor(key) ==
    {k \in 1..Len(f_ratio_block) :
        Len(f_ratio_block[k]) = 4 /\ f_ratio_block[k][2] = key}

\* C26: the ratio block has one "- Label: value" line for each ratio whose
\* value is not "N/A", none for an "N/A" ratio, in input order; the filings
\* block has a "form filed on date" line for each of the first min(3, n)
\* filings and never more than 3 lines; no ratio with a value, and no
\* filing, each give the fixed placeholder line.
C26_PromptBlocks ==
    /\ f_pc \in {"ratios_done", "done"} =>
          IF Listed = {}
          THEN f_ratio_block = << <<"No ratio data available">> >>
          ELSE /\ Len(f_ratio_block) = Cardinality(Listed)
               /\ \A i \in 1..Len(f_ratios) :
                     IF i \in Listed
                     THEN \E k \in 1..Len(f_ratio_block) :
                             /\ LinesFor(f_ratios[i].key) = {k}
                             /\ f_ratio_block[k]
                                  = <<"- ", f_ratios[i].key, ": ",
                                      f_ratios[i].value>>
                     ELSE LinesFor(f_ratios[i].key) = {}
               /\ \A i, j \in Listed :
                     i < j => \A k \in LinesFor(f_ratios[i].key),
                                 l \in LinesFor(f_ratios[j].key) : k < l
    /\ f_pc = "done" =>
          IF f_filings = <<>>
          THEN f_filing_block = << <<"No recent SEC filings available">> >>
          ELSE /\ Len(f_filing_block) <= 3
               /\ Len(f_filing_block)
                    = (IF Len(f_filings) < 3 THEN Len(f_filings) ELSE 3)
               /\ \A k \in 1..Len(f_filing_block) :
                     /\ Len(f_filing_block[k]) = 4
                     /\ f_filing_block[k][2]
                          \in {f_filings[k].form, "N/A"}
                     /\ f_filing_block[k][2] = "N/A"
                          => f_filings[k].form = Missing
                     /\ f_filing_block[k][3] = " filed on "
                     /\ f_filing_block[k][4]
                          \in {f_filings[k].date, "N/A"}
                     /\ f_filing_block[k][4] = "N/A"
                          => f_filings[k].date = Missing

\* A prompt with an "N/A" ratio before a listed one and more than 3 filings.
C26_Witness ==
    /\ f_pc = "done"
    /\ Len(f_filings) > 3
    /\ Len(f_filing_block) = 3
    /\ Len(f_ratios) = 3
    /\ f_ratios[1].value = NA
    /\ f_ratios[2].value # NA
    /\ Len(f_ratio_block) = 2

\* Every ratio is "N/A" and there is no filing: both placeholders.
C26_Placeholders ==
    /\ f_pc = "done"
    /\ f_ratios # <<>>
    /\ f_ratio_block = NoRatioBlock
    /\ f_filing_block = NoFilingBlock

\* ------------------------------------------------------------------------
\* Properties of fetch_with_retry (SpecFetch)
\* ------------------------------------------------------------------------
\* C29 (as stated): whatever the server answers, fetch_with_retry issues at
\* most `retries` requests, issues none after the first 200 or 404, and ends
\* by returning a dictionary with a boolean success field, never by raising.
C29_AlwaysReturnsDict ==
    /\ r_pc # "idle" =>
          /\ r_requests <= r_retries
          /\ \A k \in 1..(r_requests - 1) :
                StatusCode(r_responses[k]) \notin {200, 404}
    /\ r_pc # "raised"
    /\ r_pc = "returned" =>
          "success" \in DOMAIN r_result /\ r_result.success \in BOOLEAN

\* Every request was answered with 429.
AllRateLimited ==
    \A k \in 1..r_requests : r_responses[k] = "429"

\* The call raises only when every attempt was rate limited, no request
\* follows a 404 or a 200 with a JSON body, and what is returned is a
\* dictionary with a boolean success field.
C29_RaisesOnlyWhenRateLimited ==
    /\ r_pc = "raised" => AllRateLimited /\ r_requests = r_retries
    /\ r_pc = "loop" /\ r_attempt > r_retries /\ AllRateLimited =>
          r_last_error = NoError
    /\ r_pc # "idle" =>
          /\ r_requests <= r_retries
          /\ \A k \in 1..(r_requests - 1) :
                r_responses[k] \notin {"200", "404"}
    /\ r_pc = "returned" =>
          "success" \in DOMAIN r_result /\ r_result.success \in BOOLEAN

\* ------------------------------------------------------------------------
\* Properties of the dashboard's session state (SpecApp)
\* ------------------------------------------------------------------------
\* C30 (as stated): after any sequence of user actions, when finnhub_data is
\* set, ticker_symbol is the ticker it was fetched for, and an analysis shown
\* next to the loaded company data is the analysis produced for that
\* ticker_symbol.
C30_SessionConsistent ==
    /\ u_finnhub_data # NoData => u_ticker_symbol = u_finnhub_data.ticker
    /\ u_screen.company # NoTicker /\ u_screen.analysis # NoTicker =>
          /\ u_screen.analysis = u_screen.company
          /\ u_screen.analysis = u_ticker_symbol

\* The data and the symbol of the session always belong together.
C30_DataMatchesSymbol ==
    u_finnhub_data # NoData => u_ticker_symbol = u_finnhub_data.ticker

====
